---- MODULE Spec2Model ----
(***************************************************************************)
(* The injection engine of wifi-deauther (src/src/core/engine.rs): the     *)
(* control channel, the work queue, the worker loops, the buffer pool and  *)
(* the metrics counters they share.                                        *)
(*                                                                         *)
(* Spec / FairSpec   the engine exactly as engine.rs has it.  Nothing in   *)
(*                   the repository ever receives from control_rx, so no   *)
(*                   command leaves the control channel and nothing is     *)
(*                   ever pushed onto request_queue.                       *)
(* SpecD / FairSpecD the same code completed by the two parts spec.md      *)
(*                   describes and the repository lacks: the dispatcher    *)
(*                   task of section 4.4 that drains the control channel,  *)
(*                   and a transmission collaborator (section 6) whose     *)
(*                   send may fail.  Those definitions are marked below.   *)
(***************************************************************************)
EXTENDS Integers, Sequences, FiniteSets, TLC

\* ----------------------------------------------------------------- bounds
\* Worker threads of a valid configuration (EngineConfig.worker_threads).
NumWorkers == 2
\* Caller tasks that use the engine's async API concurrently.
NumCallers == 2
\* Caller tasks in the runs checked for liveness with the dispatcher present.
NumFairCallers == 1
\* inject_deauth calls made over a run (caps the request ids).
MaxRequests == 2
\* Largest `count` field a request carries.
MaxCount == 1
\* Buffers of a valid configuration (EngineConfig.buffer_pool_size).
PoolSize == 1
\* Capacity of the control channel.  engine.rs:127 builds mpsc::channel(100);
\* the model keeps the channel bounded and FIFO and scales the capacity down.
ControlCapacity == 1

\* Threads that share a PacketBuffer, and the buffers one of them may own.
NumPoolThreads == 2
MaxHeld == 2
\* Largest pool_size a PacketBuffer is built with.
MaxPool == 2
\* The clock stops advancing at MaxTime milliseconds.
MaxTime == 1500
\* Threads that call record_injection, and the calls made over a run.
NumRecorders == 2
\* Tasks that call calculate_metrics.
NumCalculators == 2
\* Of these, the recorders in the runs with NumCalculators calculators, and
\* the calculators in the runs with NumRecorders recorders.
NumLoneRecorders == 1
NumLoneCalculators == 1
MaxRecords == 2
\* reset() calls made over a run.
MaxResets == 1
\* record_target_activity calls made for one address over a run.
MaxActivity == 4
\* Receivers of the metrics broadcast channel, and the snapshots the publish
\* task sends over a run.
NumSubscribers == 2
MaxPublished == 4
\* Capacity of the broadcast channel.  engine.rs:128 builds
\* broadcast::channel(10); the model scales the capacity down.
BusCapacity == 2

\* The worker's clock stops here, in microseconds.
MaxClock == 9

\* Requests one paced worker takes in a run.
MaxSends == 3

\* The collector's clock stops here, in milliseconds, and moves in steps of
\* TickMillis.
MaxWindowTime == 1500
TickMillis == 500

\* MetricsCollector.window_size (EngineConfig.metrics_window), scaled down.
WindowSize == 2

\* Injections recorded while the sample queues are watched.
MaxSamples == 3

\* Calls of calculate_metrics each task makes while the queues are watched.
MaxRuns == 2

\* The two limiters' clock stops here, in milliseconds.
MaxTwinTime == 12000

\* The number of values of the 32-bit token counter of network/injection.rs
\* (2^32), scaled down with the rates and the times between calls.
NarrowModulus == 16

\* Calls one thread makes on its ThreadLocalBuffer and the pool behind it.
MaxCacheOps == 6

\* Calls made on an ExportManager.
MaxExportOps == 5

\* Calls one thread makes on its MetricsCollector.
MaxSoloOps == 5

\* Injections recorded, and calls each task makes, where two tasks call
\* calculate_metrics.
MaxPeakSamples == 1
MaxPeakRuns == 1

\* ------------------------------------------------------ program constants
\* EngineConfig::default().buffer_size
BufferSize == 2048
\* EngineConfig::default().max_rate_per_worker
DefaultMaxRate == 1000
\* test_rate_limiter: RateLimiter::new(10), and the 200 ms it sleeps once the
\* bucket is empty.
TestRate == 10
TestSleep == 200
\* test_metrics_collector: the bytes of each record_injection call.
TestBytes == 100

\* The length of the packet test_export_manager adds, in bytes.
TestPacketLen == 4

\* Duration::from_secs(1), in milliseconds.
OneSecond == 1000

\* Microseconds in the second the worker divides by max_rate.
MicrosPerSecond == 1000000
\* Length of DeauthPacket::to_bytes(): a 24-byte management header and the
\* 2-byte reason code (core/packet.rs is not among the sources).
PacketSize == 26

Workers == 1..NumWorkers
Callers == 1..NumCallers
RequestIds == 1..MaxRequests

\* InjectionRequest (engine.rs:24-30).  The addresses, the reason code and
\* the interval are carried through untouched by every operation below; id
\* tells the requests apart, and `late` is history: the request was put on
\* the work queue after a stop had been handled.
NoRequest == [id |-> 0, count |-> 0, late |-> FALSE]
NoCommand == [kind |-> "None"]

\* EngineConfig (engine.rs:34-55): the three fields construction and the
\* workers read.
Configs ==
    [worker_threads : {0, NumWorkers},
     max_rate_per_worker : {0, DefaultMaxRate},
     buffer_pool_size : {0, PoolSize}]

VARIABLES
    config,                \* EngineConfig handed to new()
    new_result,            \* what DeauthEngine::new did: "ok" | "err" | "panic"
    running,               \* DeauthEngine.running (AtomicBool)
    started,               \* start() has been called
    control,               \* buffered commands of the mpsc control channel
    control_closed,        \* the channel's receiver has been dropped
    send_waiters,          \* callers suspended in send().await, in arrival order
    request_queue,         \* DeauthEngine.request_queue (SegQueue)
    pool,                  \* buffers in PacketBuffer.pool
    wpc,                   \* each worker thread's position
    wreq,                  \* the request a worker has dequeued
    wbuf,                  \* the buffer a worker holds: "none" | "pooled" | "fresh"
    wres,                  \* the outcome of a worker's process_injection_request
    observed,              \* the value a worker's last running.load returned
    packets_injected,      \* MetricsCollector.packets_injected
    successful_injections, \* MetricsCollector.successful_injections
    bytes_transmitted,     \* MetricsCollector.bytes_transmitted
    last_metrics,          \* MetricsCollector.last_metrics (cached snapshot)
    metrics_task,          \* the periodic publish task: "unspawned" | "running" | "done"
    cpc,                   \* each caller's position: "absent" (no such task) | "idle" |
                           \* "stored" | "sending" | "awaiting"
    cop,                   \* the command a caller is sending
    failed,                \* the caller's last call returned Err
    reply,                 \* the one-shot reply channel of a caller's get_metrics
    pre_stopped,           \* history: the caller's unfinished shutdown() began on a stopped engine
    wrote_running,         \* history: the caller's call, unless it returned Ok, changed `running`
    next_id,               \* next request id
    processed,             \* history: how often each id was recorded in the metrics
    dispatcher,            \* the dispatcher task: "absent" | "running" | "gone"
    accepting              \* the dispatcher's "accepting" flag (spec.md 4.4)

\* The components on their own, each driven through its public interface by
\* the threads of PoolSpec, LimiterSpec and CollectorSpec below.
VARIABLES
    buffer_pool,           \* a PacketBuffer: [pool, buffer_size, pool_size]
    held,                  \* the buffers each pool thread owns
    last_op,               \* history: the latest acquire or release
    limiter,               \* a RateLimiter: [max_rate, tokens, last_refill]
    clock,                 \* Instant::now(), in milliseconds
    grants,                \* history: the times of the grants of the last second
    emptied_at,            \* history: when the bucket was last emptied (-1: never)
    rec,                   \* each recorder thread's record_injection call
    calc,                  \* each task running calculate_metrics
    rst,                   \* the thread running reset
    calls,                 \* history: the record_injection calls made so far
    target_metrics,        \* a TargetMetricsCollector: targets, and the calls as history
    window,                \* the collector's sample queues and the fields derived from them
    bus,                   \* the metrics broadcast channel and its receivers
    pacing,                \* a worker's inter-send throttle
    solo,                  \* a MetricsCollector that one thread uses, all its fields
    twins,                 \* the RateLimiters of core/engine.rs and network/injection.rs
    cache,                 \* a ThreadLocalBuffer in front of buffer_pool
    export                 \* an ExportManager

engineVars == <<config, new_result, running, started>>
channelVars == <<control, control_closed, send_waiters>>
workerVars == <<wpc, wreq, wbuf, wres, observed>>
metricVars == <<packets_injected, successful_injections, bytes_transmitted,
                last_metrics, metrics_task>>
callerVars == <<cpc, cop, failed, reply, pre_stopped, wrote_running>>
histVars == <<next_id, processed>>
dispVars == <<dispatcher, accepting>>

poolVars == <<buffer_pool, held, last_op>>
limiterVars == <<limiter, clock, grants, emptied_at>>
collectorVars == <<rec, calc, rst, calls>>
lateVars == <<solo, twins, cache, export>>
auxVars == <<target_metrics, window, bus, pacing, lateVars>>
compVars == <<poolVars, limiterVars, collectorVars, auxVars>>

vars == <<engineVars, channelVars, request_queue, pool, workerVars, metricVars,
          callerVars, histVars, dispVars, compVars>>

\* Metrics (metrics.rs:16-43): the counters a snapshot copies.
Snapshot(p, s, b) ==
    [packets_injected |-> p, successful |-> s, bytes_transmitted |-> b]

DefaultMetrics == Snapshot(0, 0, 0)

NoReply == [state |-> "none", metrics |-> DefaultMetrics]

LiveWorkerPcs == {"spawned", "check", "pop", "acquire", "send", "release", "record"}

\* The engine is stopped: the running flag is clear and no worker thread and
\* no publish task is still in its loop.
EngineStopped ==
    /\ new_result = "ok"
    /\ ~running
    /\ \A w \in Workers : wpc[w] \notin LiveWorkerPcs
    /\ metrics_task # "running"

\* ------------------------------------------------------------ construction
\* DeauthEngine::new.  It validates nothing and has no Err return: every
\* configuration yields Ok, except that PacketBuffer::new builds
\* ArrayQueue::new(pool_size), which panics on a capacity of zero.
NewResult(cfg) ==
    IF cfg.buffer_pool_size = 0 THEN "panic" ELSE "ok"

InitEngine(tasks) ==
    /\ config \in Configs
    /\ new_result = NewResult(config)
    /\ running = (NewResult(config) = "ok")
    /\ started = FALSE
    /\ control = <<>>
    /\ control_closed = FALSE
    /\ send_waiters = <<>>
    /\ request_queue = <<>>
    /\ pool = config.buffer_pool_size
    /\ wpc = [w \in Workers |-> "unspawned"]
    /\ wreq = [w \in Workers |-> NoRequest]
    /\ wbuf = [w \in Workers |-> "none"]
    /\ wres = [w \in Workers |-> "none"]
    /\ observed = [w \in Workers |-> TRUE]
    /\ packets_injected = 0
    /\ successful_injections = 0
    /\ bytes_transmitted = 0
    /\ last_metrics = DefaultMetrics
    /\ metrics_task = "unspawned"
    /\ cpc = [c \in Callers |-> IF c \in tasks THEN "idle" ELSE "absent"]
    /\ cop = [c \in Callers |-> NoCommand]
    /\ failed = [c \in Callers |-> FALSE]
    /\ reply = [c \in Callers |-> NoReply]
    /\ pre_stopped = [c \in Callers |-> FALSE]
    /\ wrote_running = [c \in Callers |-> FALSE]
    /\ next_id = 1
    /\ processed = [i \in RequestIds |-> 0]
    /\ accepting = TRUE

\* ------------------------------------------------- components, not in use
PoolThreads == 1..NumPoolThreads

NoPool == [pool |-> <<>>, buffer_size |-> 0, pool_size |-> 0]
\* History of a pool operation: the buffer it returned or consumed, the
\* available count before it and, for a release of the buffer that the
\* operation right before it acquired, the available count before that
\* acquire (-1 otherwise).
PoolOp(op, b, before, prior) ==
    [op |-> op, id |-> b.id, capacity |-> b.capacity, origin |-> b.origin,
     before |-> before, prior |-> prior]

NoOp == [op |-> "none", id |-> 0, capacity |-> 0, origin |-> "none",
         before |-> 0, prior |-> -1]

PoolUnused ==
    /\ buffer_pool = NoPool
    /\ held = [t \in PoolThreads |-> {}]
    /\ last_op = NoOp

NoLimiter == [max_rate |-> 0, tokens |-> 0, last_refill |-> 0]

LimiterUnused ==
    /\ limiter = NoLimiter
    /\ clock = 0
    /\ grants = <<>>
    /\ emptied_at = -1

CollectorUnused ==
    /\ rec = <<>>
    /\ calc = <<>>
    /\ rst = <<>>
    /\ calls = <<>>

TargetsUnused == target_metrics = <<>>

WindowUnused == window = <<>>

BusUnused == bus = <<>>

PacingUnused == pacing = <<>>

\* The collector of one thread, the two limiters, the thread-local buffer
\* and the export manager are not in use.
LateUnused ==
    /\ solo = <<>>
    /\ twins = <<>>
    /\ cache = <<>>
    /\ export = <<>>

ComponentsUnused ==
    /\ PoolUnused
    /\ LimiterUnused
    /\ CollectorUnused
    /\ TargetsUnused
    /\ WindowUnused
    /\ BusUnused
    /\ PacingUnused
    /\ LateUnused

\* The repository as it is: no task receives from control_rx.
Init ==
    /\ InitEngine(Callers)
    /\ dispatcher = "absent"
    /\ ComponentsUnused

\* Start as it would be if start() re-armed the running flag.
StartSetsRunning ==
    /\ new_result = "ok"
    /\ ~started
    /\ started' = TRUE
    /\ running' = TRUE
    /\ wpc' = [w \in Workers |->
                 IF w <= config.worker_threads THEN "spawned" ELSE wpc[w]]
    /\ metrics_task' = "running"
    /\ UNCHANGED <<compVars, config, new_result, channelVars, request_queue, pool,
                   wreq, wbuf, wres, observed, packets_injected,
                   successful_injections, bytes_transmitted, last_metrics,
                   callerVars, histVars, dispVars>>

\* DeauthEngine::start: one thread per configured worker and the publish
\* task.  It neither reads nor writes the running flag.  The runs modelled
\* call it at most once; a further call would spawn a further set of threads.
Start ==
    /\ new_result = "ok"
    /\ ~started
    /\ started' = TRUE
    /\ wpc' = [w \in Workers |->
                 IF w <= config.worker_threads THEN "spawned" ELSE wpc[w]]
    /\ metrics_task' = "running"
    /\ UNCHANGED <<compVars, config, new_result, running, channelVars, request_queue, pool,
                   wreq, wbuf, wres, observed, packets_injected,
                   successful_injections, bytes_transmitted, last_metrics,
                   callerVars, histVars, dispVars>>

\* ---------------------------------------------------------- control channel
\* What one poll of control_tx.send(cmd).await does for caller c.  `first`
\* is the poll made by the call itself; later polls are those of a suspended
\* sender.  The receiver lives in the engine (control_rx), so the channel is
\* closed only when something drops or closes that receiver.  A full channel
\* suspends the sender: tokio's bounded channel hands out capacity in arrival
\* order, so a new sender queues behind those already waiting.
SendOutcome(c, first) ==
    IF control_closed THEN "err"
    ELSE IF /\ Len(control) < ControlCapacity
            /\ IF first THEN send_waiters = <<>> ELSE Head(send_waiters) = c
         THEN "sent"
         ELSE "wait"

\* The caller's side of a poll with the given outcome, including what the
\* API function does once the send has returned (map_err and `?`, Ok(()), or
\* for get_metrics the wait on the one-shot receiver).  `wrote` and `stopped`
\* are the call's history: it changed the running flag, it began on a stopped
\* engine.
AfterSend(c, cmd, outcome, wrote, stopped) ==
    /\ cpc' = [cpc EXCEPT ![c] =
                 CASE outcome = "wait" -> "sending"
                   [] outcome = "sent" /\ cmd.kind = "GetMetrics" -> "awaiting"
                   [] OTHER -> "idle"]
    /\ cop' = [cop EXCEPT ![c] = IF outcome = "wait" THEN cmd ELSE NoCommand]
    /\ failed' = [failed EXCEPT ![c] = (outcome = "err")]
    /\ reply' = [reply EXCEPT ![c] =
                   IF outcome = "sent" /\ cmd.kind = "GetMetrics"
                   THEN [state |-> "open", metrics |-> DefaultMetrics]
                   ELSE NoReply]
    /\ wrote_running' = [wrote_running EXCEPT ![c] = wrote /\ outcome # "sent"]
    /\ pre_stopped' = [pre_stopped EXCEPT ![c] = stopped /\ outcome = "wait"]

ChannelSend(c, cmd, first, wrote, stopped) ==
    LET outcome == SendOutcome(c, first) IN
    /\ control' = IF outcome = "sent" THEN Append(control, cmd) ELSE control
    /\ send_waiters' =
           CASE first /\ outcome = "wait" -> Append(send_waiters, c)
             [] ~first /\ outcome # "wait" ->
                   SelectSeq(send_waiters, LAMBDA x : x # c)
             [] OTHER -> send_waiters
    /\ UNCHANGED control_closed
    /\ AfterSend(c, cmd, outcome, wrote, stopped)

\* Entry of an API call by caller c, a task that is in no other call.
BeginCall(c) ==
    /\ new_result = "ok"
    /\ cpc[c] = "idle"

\* ------------------------------------------------------------- public API
\* DeauthEngine::inject_deauth
InjectDeauth(c, count) ==
    /\ next_id <= MaxRequests
    /\ BeginCall(c)
    /\ ChannelSend(c, [kind |-> "StartInjection",
                       request |-> [id |-> next_id, count |-> count,
                                   late |-> FALSE]],
                   TRUE, FALSE, FALSE)
    /\ next_id' = next_id + 1
    /\ UNCHANGED <<compVars, engineVars, request_queue, pool, workerVars, metricVars,
                   processed, dispVars>>

\* DeauthEngine::stop_injection
StopInjection(c) ==
    /\ BeginCall(c)
    /\ ChannelSend(c, [kind |-> "StopInjection"], TRUE, FALSE, FALSE)
    /\ UNCHANGED <<compVars, engineVars, request_queue, pool, workerVars, metricVars,
                   next_id, processed, dispVars>>

\* DeauthEngine::get_metrics: a fresh one-shot channel, its sender sent inside
\* the command, then the wait on its receiver.
GetMetrics(c) ==
    /\ BeginCall(c)
    /\ ChannelSend(c, [kind |-> "GetMetrics", reply |-> c], TRUE, FALSE, FALSE)
    /\ UNCHANGED <<compVars, engineVars, request_queue, pool, workerVars, metricVars,
                   next_id, processed, dispVars>>

\* DeauthEngine::shutdown, first statement: running.store(false).
ShutdownStore(c) ==
    /\ BeginCall(c)
    /\ running' = FALSE
    /\ cpc' = [cpc EXCEPT ![c] = "stored"]
    /\ cop' = [cop EXCEPT ![c] = [kind |-> "Shutdown"]]
    /\ failed' = [failed EXCEPT ![c] = FALSE]
    /\ wrote_running' = [wrote_running EXCEPT ![c] = running]
    /\ pre_stopped' = [pre_stopped EXCEPT ![c] = EngineStopped]
    /\ UNCHANGED <<compVars, config, new_result, started, channelVars, request_queue, pool,
                   workerVars, metricVars, reply, histVars, dispVars>>

\* DeauthEngine::shutdown, the rest: the command is sent; unparking the
\* worker threads changes no state.
ShutdownSend(c) ==
    /\ cpc[c] = "stored"
    /\ ChannelSend(c, cop[c], TRUE, wrote_running[c], pre_stopped[c])
    /\ UNCHANGED <<compVars, engineVars, request_queue, pool, workerVars, metricVars,
                   next_id, processed, dispVars>>

\* A sender suspended on the full channel is polled again: it completes once
\* it is first in line and a slot is free, or fails once the channel is
\* closed; the API function then runs to its end as in AfterSend.
SendResume(c) ==
    /\ cpc[c] = "sending"
    /\ SendOutcome(c, FALSE) # "wait"
    /\ ChannelSend(c, cop[c], FALSE, wrote_running[c], pre_stopped[c])
    /\ UNCHANGED <<compVars, engineVars, request_queue, pool, workerVars, metricVars,
                   next_id, processed, dispVars>>

\* get_metrics resumes when its one-shot receiver resolves: the snapshot, or
\* a RecvError when the sender was dropped unsent.
GetMetricsReturn(c) ==
    /\ cpc[c] = "awaiting"
    /\ reply[c].state \in {"sent", "dropped"}
    /\ cpc' = [cpc EXCEPT ![c] = "idle"]
    /\ failed' = [failed EXCEPT ![c] = (reply[c].state = "dropped")]
    /\ reply' = [reply EXCEPT ![c] = NoReply]
    /\ UNCHANGED <<compVars, engineVars, channelVars, request_queue, pool, workerVars,
                   metricVars, cop, pre_stopped, wrote_running, histVars, dispVars>>

\* ------------------------------------------------------------ worker loop
\* The thread's first statements, before the loop: min_interval is
\* 1_000_000 / max_rate, a division that panics the thread when max_rate is
\* zero.
WorkerStartup(w) ==
    /\ wpc[w] = "spawned"
    /\ wpc' = [wpc EXCEPT ![w] =
                 IF config.max_rate_per_worker = 0 THEN "panicked" ELSE "check"]
    /\ UNCHANGED <<compVars, engineVars, channelVars, request_queue, pool, wreq, wbuf, wres,
                   observed, metricVars, callerVars, histVars, dispVars>>

\* WorkerCheck as it would be if the loop were `loop { ... }`: the flag is
\* read but the iteration begins whatever it holds.
WorkerCheckIgnoresFlag(w) ==
    /\ wpc[w] = "check"
    /\ observed' = [observed EXCEPT ![w] = running]
    /\ wpc' = [wpc EXCEPT ![w] = "pop"]
    /\ UNCHANGED <<compVars, engineVars, channelVars, request_queue, pool, wreq, wbuf, wres,
                   metricVars, callerVars, histVars, dispVars>>

\* while running.load(Relaxed)
WorkerCheck(w) ==
    /\ wpc[w] = "check"
    /\ observed' = [observed EXCEPT ![w] = running]
    /\ wpc' = [wpc EXCEPT ![w] = IF running THEN "pop" ELSE "done"]
    /\ UNCHANGED <<compVars, engineVars, channelVars, request_queue, pool, wreq, wbuf, wres,
                   metricVars, callerVars, histVars, dispVars>>

\* WorkerPop as it would be if it read the head of the queue and left it
\* there.
WorkerPopLeavesHead(w) ==
    /\ wpc[w] = "pop"
    /\ IF request_queue # <<>>
       THEN /\ wreq' = [wreq EXCEPT ![w] = Head(request_queue)]
            /\ wpc' = [wpc EXCEPT ![w] = "acquire"]
       ELSE /\ wpc' = [wpc EXCEPT ![w] = "check"]
            /\ UNCHANGED wreq
    /\ UNCHANGED <<compVars, engineVars, channelVars, request_queue, pool, wbuf,
                   wres, observed, metricVars, callerVars, histVars, dispVars>>

\* if let Some(request) = request_queue.pop() { ... } else { yield_now() }
\* (the sleep that enforces MinInterval changes no state modelled here).
WorkerPop(w) ==
    /\ wpc[w] = "pop"
    /\ IF request_queue # <<>>
       THEN /\ wreq' = [wreq EXCEPT ![w] = Head(request_queue)]
            /\ request_queue' = Tail(request_queue)
            /\ wpc' = [wpc EXCEPT ![w] = "acquire"]
       ELSE /\ wpc' = [wpc EXCEPT ![w] = "check"]
            /\ UNCHANGED <<wreq, request_queue>>
    /\ UNCHANGED <<compVars, engineVars, channelVars, pool, wbuf, wres, observed,
                   metricVars, callerVars, histVars, dispVars>>

\* process_injection_request, first part: buffer_pool.acquire(), which pops a
\* pooled buffer or allocates a fresh one and so is always Some.
WorkerAcquire(w) ==
    /\ wpc[w] = "acquire"
    /\ IF pool > 0
       THEN /\ pool' = pool - 1
            /\ wbuf' = [wbuf EXCEPT ![w] = "pooled"]
       ELSE /\ pool' = pool
            /\ wbuf' = [wbuf EXCEPT ![w] = "fresh"]
    /\ wpc' = [wpc EXCEPT ![w] = "send"]
    /\ UNCHANGED <<compVars, engineVars, channelVars, request_queue, wreq, wres, observed,
                   metricVars, callerVars, histVars, dispVars>>

\* WorkerSend as it would be if a cleared running flag interrupted the send:
\* the thread ends with the request unrecorded and the buffer unreleased.
WorkerSendInterruptible(w, outcome) ==
    /\ wpc[w] = "send"
    /\ wres' = [wres EXCEPT ![w] = IF running THEN outcome ELSE "none"]
    /\ wpc' = [wpc EXCEPT ![w] = IF running THEN "release" ELSE "done"]
    /\ UNCHANGED <<compVars, engineVars, channelVars, request_queue, pool, wreq, wbuf,
                   observed, metricVars, callerVars, histVars, dispVars>>

\* process_injection_request, the packet: one packet is built whatever the
\* request's count and handed to the transmission, whose outcome decides
\* between Ok(packet_size) and Err.
WorkerSend(w, outcome) ==
    /\ wpc[w] = "send"
    /\ wres' = [wres EXCEPT ![w] = outcome]
    /\ wpc' = [wpc EXCEPT ![w] = "release"]
    /\ UNCHANGED <<compVars, engineVars, channelVars, request_queue, pool, wreq, wbuf,
                   observed, metricVars, callerVars, histVars, dispVars>>

\* WorkerRelease as it would be if a request of count n were sent n times,
\* with a buffer acquired and released for each packet.
WorkerReleasePerCount(w) ==
    /\ wpc[w] = "release"
    /\ pool' = IF pool < config.buffer_pool_size THEN pool + 1 ELSE pool
    /\ wbuf' = [wbuf EXCEPT ![w] = "none"]
    /\ wreq' = [wreq EXCEPT ![w].count = IF @ > 1 THEN @ - 1 ELSE @]
    /\ wpc' = [wpc EXCEPT ![w] = IF wreq[w].count > 1 THEN "acquire" ELSE "record"]
    /\ UNCHANGED <<compVars, engineVars, channelVars, request_queue, wres, observed,
                   metricVars, callerVars, histVars, dispVars>>

\* process_injection_request, last part: buffer_pool.release(buffer).  The
\* buffer has the pool's buffer size; it is pushed back unless the pool is
\* full, and then dropped.
WorkerRelease(w) ==
    /\ wpc[w] = "release"
    /\ pool' = IF pool < config.buffer_pool_size THEN pool + 1 ELSE pool
    /\ wbuf' = [wbuf EXCEPT ![w] = "none"]
    /\ wpc' = [wpc EXCEPT ![w] = "record"]
    /\ UNCHANGED <<compVars, engineVars, channelVars, request_queue, wreq, wres, observed,
                   metricVars, callerVars, histVars, dispVars>>

\* MetricsCollector::record_injection(bytes, success, latency): the three
\* counters.  (It also pushes a timestamp and the latency onto the sample
\* queues, from which only the rate and latency fields of a snapshot derive.)
RecordInjection(bytes, success) ==
    /\ packets_injected' = packets_injected + 1
    /\ bytes_transmitted' = bytes_transmitted + bytes
    /\ successful_injections' =
           IF success THEN successful_injections + 1 ELSE successful_injections

\* WorkerRecord as it would be if the Err arm ended the thread (`break`)
\* after recording.
WorkerRecordErrBreaks(w) ==
    /\ wpc[w] = "record"
    /\ IF wres[w] = "ok"
       THEN RecordInjection(PacketSize, TRUE)
       ELSE RecordInjection(0, FALSE)
    /\ processed' = [processed EXCEPT ![wreq[w].id] = @ + 1]
    /\ wreq' = [wreq EXCEPT ![w] = NoRequest]
    /\ wres' = [wres EXCEPT ![w] = "none"]
    /\ wpc' = [wpc EXCEPT ![w] = IF wres[w] = "ok" THEN "check" ELSE "done"]
    /\ UNCHANGED <<compVars, engineVars, channelVars, request_queue, pool, wbuf, observed,
                   last_metrics, metrics_task, callerVars, next_id, dispVars>>

\* The match on the result: Ok(bytes_sent) is recorded as a success with its
\* bytes, Err as a failure with zero bytes; either way the loop goes on.
WorkerRecord(w) ==
    /\ wpc[w] = "record"
    /\ IF wres[w] = "ok"
       THEN RecordInjection(PacketSize, TRUE)
       ELSE RecordInjection(0, FALSE)
    /\ processed' = [processed EXCEPT ![wreq[w].id] = @ + 1]
    /\ wreq' = [wreq EXCEPT ![w] = NoRequest]
    /\ wres' = [wres EXCEPT ![w] = "none"]
    /\ wpc' = [wpc EXCEPT ![w] = "check"]
    /\ UNCHANGED <<compVars, engineVars, channelVars, request_queue, pool, wbuf, observed,
                   last_metrics, metrics_task, callerVars, next_id, dispVars>>

\* ----------------------------------------------------------- publish task
\* start_metrics_task: while the flag is set, calculate_metrics() on each
\* tick, which replaces the cached snapshot.  One iteration of the loop (the
\* load, the tick, the calculation) is one step.
MetricsTick ==
    /\ metrics_task = "running"
    /\ running
    /\ last_metrics' = Snapshot(packets_injected, successful_injections,
                                bytes_transmitted)
    /\ UNCHANGED <<compVars, engineVars, channelVars, request_queue, pool, workerVars,
                   packets_injected, successful_injections, bytes_transmitted,
                   metrics_task, callerVars, histVars, dispVars>>

MetricsExit ==
    /\ metrics_task = "running"
    /\ ~running
    /\ metrics_task' = "done"
    /\ UNCHANGED <<compVars, engineVars, channelVars, request_queue, pool, workerVars,
                   packets_injected, successful_injections, bytes_transmitted,
                   last_metrics, callerVars, histVars, dispVars>>

\* ------------------------------------------------- the engine as it is
\* The steps the repository's code can take.  With no receiver on the control
\* channel the remaining steps of a worker iteration, SendResume and
\* GetMetricsReturn are never enabled (QueueNeverFilled below), so they are
\* left to NextD.
WorkerIdle(w) ==
    \/ WorkerStartup(w)
    \/ WorkerCheck(w)
    \/ WorkerPop(w)

Next ==
    \/ Start
    \/ \E c \in Callers, n \in 1..MaxCount : InjectDeauth(c, n)
    \/ \E c \in Callers : StopInjection(c)
    \/ \E c \in Callers : GetMetrics(c)
    \/ \E c \in Callers : ShutdownStore(c)
    \/ \E c \in Callers : ShutdownSend(c)
    \/ \E w \in Workers : WorkerIdle(w)
    \/ MetricsTick
    \/ MetricsExit

Spec == Init /\ [][Next]_vars

\* Threads and tasks that can run are run: the operating system schedules
\* every worker thread, the async runtime polls the publish task.
FairSpec ==
    /\ Spec
    /\ \A w \in Workers : WF_vars(WorkerIdle(w))
    /\ WF_vars(MetricsTick \/ MetricsExit)
    /\ \A c \in Callers : WF_vars(ShutdownSend(c))

\* Without a dispatcher nothing leaves the control channel and nothing
\* reaches the work queue.
QueueNeverFilled ==
    /\ request_queue = <<>>
    /\ \A w \in Workers : wpc[w] \notin {"acquire", "send", "release", "record"}
    /\ \A c \in Callers : reply[c].state \in {"none", "open"}
    /\ ~control_closed

\* ------------------------------------- the parts the repository lacks
\* The dispatcher of spec.md 4.4, a single task that receives the commands in
\* order.  It exists from construction and ends when it has handled Shutdown.
InitDispatcher ==
    dispatcher = IF NewResult(config) = "ok" THEN "running" ELSE "absent"

InitD ==
    /\ InitEngine(Callers)
    /\ InitDispatcher
    /\ ComponentsUnused

DispatcherHas(kind) ==
    /\ dispatcher = "running"
    /\ control # <<>>
    /\ Head(control).kind = kind

\* StartInjection(request): push the request onto the work queue.
DispatchStartInjection ==
    /\ DispatcherHas("StartInjection")
    /\ control' = Tail(control)
    /\ request_queue' = Append(request_queue,
                                [Head(control).request EXCEPT !.late = ~accepting])
    /\ UNCHANGED <<compVars, engineVars, control_closed, send_waiters, pool, workerVars,
                   metricVars, callerVars, histVars, dispVars>>

\* StopInjection: clear the "accepting" flag.
DispatchStopInjection ==
    /\ DispatcherHas("StopInjection")
    /\ control' = Tail(control)
    /\ accepting' = FALSE
    /\ UNCHANGED <<compVars, engineVars, control_closed, send_waiters, request_queue, pool,
                   workerVars, metricVars, callerVars, histVars, dispatcher>>

\* GetMetrics(reply): send the collector's snapshot on the one-shot channel.
DispatchGetMetrics ==
    /\ DispatcherHas("GetMetrics")
    /\ control' = Tail(control)
    /\ reply' = [reply EXCEPT ![Head(control).reply] =
                   [state |-> "sent", metrics |-> last_metrics]]
    /\ UNCHANGED <<compVars, engineVars, control_closed, send_waiters, request_queue, pool,
                   workerVars, metricVars, cpc, cop, failed, pre_stopped,
                   wrote_running, histVars, dispVars>>

\* Shutdown: clear the running flag and end.  The dispatcher is gone: the
\* channel is closed, and the commands still buffered are dropped with the
\* reply senders they hold.
DispatchShutdown ==
    /\ DispatcherHas("Shutdown")
    /\ running' = FALSE
    /\ dispatcher' = "gone"
    /\ control_closed' = TRUE
    /\ control' = <<>>
    /\ reply' = [c \in Callers |->
                   IF \E i \in 2..Len(control) :
                          /\ control[i].kind = "GetMetrics"
                          /\ control[i].reply = c
                   THEN [state |-> "dropped", metrics |-> DefaultMetrics]
                   ELSE reply[c]]
    /\ UNCHANGED <<compVars, config, new_result, started, send_waiters, request_queue, pool,
                   workerVars, metricVars, cpc, cop, failed, pre_stopped,
                   wrote_running, histVars, accepting>>

Dispatch ==
    \/ DispatchStartInjection
    \/ DispatchStopInjection
    \/ DispatchGetMetrics
    \/ DispatchShutdown

\* What a transmission can return.  The repository's injection is simulated
\* and always succeeds; the transmission collaborator of spec.md 6 may return
\* a TransmitError.
TransmitOutcomes == {"ok", "err"}

WorkerBusy(w) ==
    \/ WorkerAcquire(w)
    \/ \E outcome \in TransmitOutcomes : WorkerSend(w, outcome)
    \/ WorkerRelease(w)
    \/ WorkerRecord(w)

NextD ==
    \/ Next
    \/ Dispatch
    \/ \E w \in Workers : WorkerBusy(w)
    \/ \E c \in Callers : SendResume(c)
    \/ \E c \in Callers : GetMetricsReturn(c)

SpecD == InitD /\ [][NextD]_vars

\* As FairSpec; the dispatcher and a woken caller are tasks the async
\* runtime polls.  The runs checked for liveness have NumFairCallers caller
\* tasks.
InitFairD ==
    /\ InitEngine(1..NumFairCallers)
    /\ InitDispatcher
    /\ ComponentsUnused

FairSpecD ==
    /\ InitFairD
    /\ [][NextD]_vars
    /\ \A w \in Workers : WF_vars(WorkerIdle(w) \/ WorkerBusy(w))
    /\ WF_vars(MetricsTick \/ MetricsExit)
    /\ WF_vars(Dispatch)
    /\ \A c \in Callers :
           WF_vars(ShutdownSend(c) \/ SendResume(c) \/ GetMetricsReturn(c))

(***************************************************************************)
(* The worker loop over a filled queue: the engine is started, its workers *)
(* are in their loops, and the dispatcher has put MaxRequests requests of  *)
(* any count and interval on the work queue.  No caller is at work.        *)
(***************************************************************************)

\* InjectionRequest.count (u32) and InjectionRequest.interval, in
\* milliseconds, as the requests of the filled queue carry them.
RequestCounts == {0, 1, 3}
RequestIntervals == {0, 100}

DrainInit ==
    /\ config = [worker_threads |-> NumWorkers,
                 max_rate_per_worker |-> DefaultMaxRate,
                 buffer_pool_size |-> PoolSize]
    /\ new_result = "ok"
    /\ running = TRUE
    /\ started = TRUE
    /\ control = <<>>
    /\ control_closed = FALSE
    /\ send_waiters = <<>>
    /\ \E counts \in [RequestIds -> RequestCounts],
          intervals \in [RequestIds -> RequestIntervals] :
           request_queue = [i \in RequestIds |->
                               [id |-> i, count |-> counts[i], late |-> FALSE,
                                interval |-> intervals[i]]]
    /\ pool = PoolSize
    /\ wpc = [w \in Workers |-> "check"]
    /\ wreq = [w \in Workers |-> NoRequest]
    /\ wbuf = [w \in Workers |-> "none"]
    /\ wres = [w \in Workers |-> "none"]
    /\ observed = [w \in Workers |-> TRUE]
    /\ packets_injected = 0
    /\ successful_injections = 0
    /\ bytes_transmitted = 0
    /\ last_metrics = DefaultMetrics
    /\ metrics_task = "running"
    /\ cpc = [c \in Callers |-> "absent"]
    /\ cop = [c \in Callers |-> NoCommand]
    /\ failed = [c \in Callers |-> FALSE]
    /\ reply = [c \in Callers |-> NoReply]
    /\ pre_stopped = [c \in Callers |-> FALSE]
    /\ wrote_running = [c \in Callers |-> FALSE]
    /\ next_id = MaxRequests + 1
    /\ processed = [i \in RequestIds |-> 0]
    /\ dispatcher = "running"
    /\ accepting = TRUE
    /\ ComponentsUnused

DrainNext ==
    \/ \E w \in Workers : WorkerCheck(w)
    \/ \E w \in Workers : WorkerPop(w)
    \/ \E w \in Workers : WorkerBusy(w)

DrainSpec == DrainInit /\ [][DrainNext]_vars

\* ---------------------------------------------------------- the engine, idle
\* The engine's variables in the runs that drive a component on its own: an
\* engine built from a valid configuration and left alone.
EngineUnused ==
    /\ InitEngine({})
    /\ config = [worker_threads |-> NumWorkers,
                 max_rate_per_worker |-> DefaultMaxRate,
                 buffer_pool_size |-> PoolSize]
    /\ dispatcher = "absent"

engineSide == <<engineVars, channelVars, request_queue, pool, workerVars,
                callerVars, histVars, dispVars>>

\* ------------------------------------------------------------- PacketBuffer
\* A BytesMut: its capacity, and as history an identity and where it came
\* from ("pool": built by PacketBuffer::new, "fresh": allocated by acquire,
\* "foreign": allocated by the thread itself).
Buffer(id, capacity, origin) ==
    [id |-> id, capacity |-> capacity, origin |-> origin]

\* PacketBuffer::new(pool_size, buffer_size): the queue pre-populated with
\* pool_size buffers of buffer_size bytes.
PacketBufferNew(pool_size, buffer_size) ==
    [pool |-> [i \in 1..pool_size |-> Buffer(i, buffer_size, "pool")],
     buffer_size |-> buffer_size,
     pool_size |-> pool_size]

\* stats().available
Available(pb) == Len(pb.pool)

BufferIds(bufs) == {b.id : b \in bufs}

PooledIds == {buffer_pool.pool[i].id : i \in 1..Len(buffer_pool.pool)}

HeldIds == UNION {BufferIds(held[t]) : t \in PoolThreads}

\* An identity no live buffer has.
FreshId ==
    CHOOSE i \in 1..(MaxPool + NumPoolThreads * MaxHeld + 1) :
        /\ i \notin PooledIds \cup HeldIds
        /\ \A j \in 1..(i - 1) : j \in PooledIds \cup HeldIds

\* acquire() as it would be if it peeked at the queue's head without taking
\* it out.
AcquirePeeks(pb, id) ==
    IF pb.pool # <<>>
    THEN [buffer |-> Head(pb.pool), pb |-> pb]
    ELSE [buffer |-> Buffer(id, pb.buffer_size, "fresh"), pb |-> pb]

\* acquire() as it would be with ThreadLocalBuffer::get's fallback, a fresh
\* buffer of a fixed capacity instead of the pool's buffer size.
AcquireFixedFallback(pb, id) ==
    IF pb.pool # <<>>
    THEN [buffer |-> Head(pb.pool), pb |-> [pb EXCEPT !.pool = Tail(@)]]
    ELSE [buffer |-> Buffer(id, pb.buffer_size \div 2, "fresh"), pb |-> pb]

\* PacketBuffer::acquire: pool.pop(), or a fresh buffer of buffer_size when
\* the queue is empty; always Some.  `id` names a freshly allocated buffer.
PoolAcquire(pb, id) ==
    IF pb.pool # <<>>
    THEN [buffer |-> Head(pb.pool), pb |-> [pb EXCEPT !.pool = Tail(@)]]
    ELSE [buffer |-> Buffer(id, pb.buffer_size, "fresh"), pb |-> pb]

\* release() as it would be on an unbounded queue: no buffer is discarded.
ReleaseUnbounded(pb, b) ==
    IF b.capacity = pb.buffer_size
    THEN [pb EXCEPT !.pool = Append(@, b)]
    ELSE pb

\* release() as it would be without the capacity test.
ReleaseAnyCapacity(pb, b) ==
    IF Len(pb.pool) < pb.pool_size
    THEN [pb EXCEPT !.pool = Append(@, b)]
    ELSE pb

\* release() as it would be if it kept a spare slot free (`<` for `<=` in the
\* queue's bound).
ReleaseKeepsSlot(pb, b) ==
    IF b.capacity = pb.buffer_size /\ Len(pb.pool) + 1 < pb.pool_size
    THEN [pb EXCEPT !.pool = Append(@, b)]
    ELSE pb

\* release() as it would be if it dropped every buffer it is given.
ReleaseDropsAll(pb, b) ==
    pb

\* PacketBuffer::release: a buffer of the pool's buffer size is pushed back,
\* unless the queue is full (push fails and the buffer is dropped); a buffer
\* of another capacity is dropped.  No outcome is an error.
PoolRelease(pb, b) ==
    IF b.capacity = pb.buffer_size /\ Len(pb.pool) < pb.pool_size
    THEN [pb EXCEPT !.pool = Append(@, b)]
    ELSE pb

\* A thread calls acquire().
Acquire(t) ==
    /\ buffer_pool # NoPool
    /\ Cardinality(held[t]) < MaxHeld
    /\ LET r == PoolAcquire(buffer_pool, FreshId) IN
       /\ buffer_pool' = r.pb
       /\ held' = [held EXCEPT ![t] = @ \cup {r.buffer}]
       /\ last_op' = PoolOp("acquire", r.buffer, Available(buffer_pool), -1)
    /\ UNCHANGED <<engineSide, auxVars, metricVars, limiterVars, collectorVars>>

\* A thread calls release(buffer) with a buffer it owns; the call consumes
\* the buffer.
Release(t) ==
    /\ buffer_pool # NoPool
    /\ \E b \in held[t] :
           /\ buffer_pool' = PoolRelease(buffer_pool, b)
           /\ held' = [held EXCEPT ![t] = @ \ {b}]
           /\ last_op' = PoolOp("release", b, Available(buffer_pool),
                                IF last_op.op = "acquire" /\ last_op.id = b.id
                                THEN last_op.before ELSE -1)
    /\ UNCHANGED <<engineSide, auxVars, metricVars, limiterVars, collectorVars>>

\* A thread allocates a buffer of its own, BytesMut::with_capacity(capacity),
\* of a capacity other than the pool's (buffers of the pool's size come from
\* acquire).
Allocate(t, capacity) ==
    /\ buffer_pool # NoPool
    /\ Cardinality(held[t]) < MaxHeld
    /\ held' = [held EXCEPT ![t] = @ \cup {Buffer(FreshId, capacity, "foreign")}]
    /\ UNCHANGED <<engineSide, auxVars, metricVars, buffer_pool, last_op,
                   limiterVars, collectorVars>>

ForeignCapacities == {BufferSize \div 2}

PoolInit ==
    /\ EngineUnused
    /\ \E n \in 1..MaxPool : buffer_pool = PacketBufferNew(n, BufferSize)
    /\ held = [t \in PoolThreads |-> {}]
    /\ last_op = NoOp
    /\ LimiterUnused
    /\ CollectorUnused
    /\ TargetsUnused
    /\ WindowUnused
    /\ BusUnused
    /\ PacingUnused
    /\ LateUnused

PoolNext ==
    \/ \E t \in PoolThreads : Acquire(t)
    \/ \E t \in PoolThreads : Release(t)
    \/ \E t \in PoolThreads, capacity \in ForeignCapacities : Allocate(t, capacity)

PoolSpec == PoolInit /\ [][PoolNext]_vars

\* -------------------------------------------------------------- RateLimiter
\* Instants are whole milliseconds, the unit of subsec_millis(); the calls
\* come one after another from the thread that owns the limiter (the
\* last_refill write lock is held from the first statement after
\* Instant::now() to the return), and a call happens at the instant it read.
\* max_rate values a limiter is built with: one token every 500 ms and one
\* every 200 ms.
Rates == {2, 5}

\* How far the clock moves between two calls.
TimeSteps == {100, 200}

\* RateLimiter::new(max_rate) at instant `now`: a full bucket.
RateLimiterNew(max_rate, now) ==
    [max_rate |-> max_rate, tokens |-> max_rate, last_refill |-> now]

\* now.duration_since(last_refill), which saturates at zero.
DurationSince(now, earlier) == IF now > earlier THEN now - earlier ELSE 0

\* elapsed.as_secs() * max_rate + elapsed.subsec_millis() * max_rate / 1000
TokensToAdd(max_rate, elapsed) ==
    (elapsed \div 1000) * max_rate + ((elapsed % 1000) * max_rate) \div 1000

Min(a, b) == IF a < b THEN a ELSE b

\* The refill as it would be without `.min(self.max_rate)`.
RefillUncapped(l, now) ==
    LET tokens_to_add == TokensToAdd(l.max_rate, DurationSince(now, l.last_refill)) IN
    IF tokens_to_add > 0
    THEN [l EXCEPT !.tokens = @ + tokens_to_add, !.last_refill = now]
    ELSE l

\* The refill as it would be if it counted whole seconds only.
RefillWholeSeconds(l, now) ==
    LET tokens_to_add == (DurationSince(now, l.last_refill) \div 1000) * l.max_rate IN
    IF tokens_to_add > 0
    THEN [l EXCEPT !.tokens = Min(@ + tokens_to_add, l.max_rate),
                   !.last_refill = now]
    ELSE l

\* The refill as it would be if it moved last_refill at every call.
RefillAlwaysStamps(l, now) ==
    LET tokens_to_add == TokensToAdd(l.max_rate, DurationSince(now, l.last_refill)) IN
    [l EXCEPT !.tokens = Min(@ + tokens_to_add, l.max_rate),
              !.last_refill = now]

\* try_acquire, the refill: the tokens the time since last_refill has earned
\* are added up to max_rate, and last_refill moves to `now` only when at
\* least one was earned.
Refill(l, now) ==
    LET tokens_to_add == TokensToAdd(l.max_rate, DurationSince(now, l.last_refill)) IN
    IF tokens_to_add > 0
    THEN [l EXCEPT !.tokens = Min(@ + tokens_to_add, l.max_rate),
                   !.last_refill = now]
    ELSE l

\* RateLimiter::try_acquire at instant `now`: the refill, then fetch_update
\* takes one token if there is one.
TryAcquireAt(l, now) ==
    LET r == Refill(l, now) IN
    IF r.tokens > 0
    THEN [limiter |-> [r EXCEPT !.tokens = @ - 1], granted |-> TRUE]
    ELSE [limiter |-> r, granted |-> FALSE]

\* How many of n calls in a row at instant `now` are granted.
RECURSIVE GrantedOf(_, _, _)
GrantedOf(l, now, n) ==
    IF n = 0 THEN 0
    ELSE LET r == TryAcquireAt(l, now) IN
         (IF r.granted THEN 1 ELSE 0) + GrantedOf(r.limiter, now, n - 1)

\* A call of try_acquire().
TryAcquire ==
    /\ limiter # NoLimiter
    /\ LET r == TryAcquireAt(limiter, clock) IN
       /\ limiter' = r.limiter
       /\ grants' = IF r.granted THEN Append(grants, clock) ELSE grants
       /\ emptied_at' = IF r.granted /\ r.limiter.tokens = 0
                         THEN clock ELSE emptied_at
    /\ UNCHANGED <<engineSide, auxVars, metricVars, poolVars, clock, collectorVars>>

\* Time passes (the caller sleeps or works); grants a second old or older
\* leave the history.
Tick(d) ==
    /\ limiter # NoLimiter
    /\ clock + d <= MaxTime
    /\ clock' = clock + d
    /\ grants' = SelectSeq(grants, LAMBDA at : clock' - at < 1000)
    /\ UNCHANGED <<engineSide, auxVars, metricVars, poolVars, limiter, emptied_at,
                   collectorVars>>

LimiterInit ==
    /\ EngineUnused
    /\ PoolUnused
    /\ clock = 0
    /\ \E max_rate \in Rates : limiter = RateLimiterNew(max_rate, clock)
    /\ grants = <<>>
    /\ emptied_at = -1
    /\ CollectorUnused
    /\ TargetsUnused
    /\ WindowUnused
    /\ BusUnused
    /\ PacingUnused
    /\ LateUnused

LimiterNext ==
    \/ TryAcquire
    \/ \E d \in TimeSteps : Tick(d)

LimiterSpec == LimiterInit /\ [][LimiterNext]_vars

\* --------------------------------------------------------- MetricsCollector
\* The collector's counters are packets_injected, successful_injections and
\* bytes_transmitted above, its cached snapshot is last_metrics.  Every
\* fetch_add, load and store is a step of its own; the sample queues, from
\* which the rate and latency fields derive, and active_targets are left out.
Recorders == 1..NumRecorders
Calculators == 1..NumCalculators

\* The `bytes` arguments of record_injection.
RecordSizes == {0, TestBytes}

IdleRecorder == [pc |-> "idle", bytes |-> 0, success |-> FALSE]

\* History of the record_injection calls: how many were made, the sum of
\* their bytes, and whether two of them ran at the same time.
NoCalls == [count |-> 0, bytes |-> 0, overlapped |-> FALSE]

\* success_rate, as the fraction num / den.
SuccessRate(successful_packets, total_packets) ==
    IF total_packets > 0
    THEN [num |-> successful_packets, den |-> total_packets]
    ELSE [num |-> 0, den |-> 1]

\* A task in calculate_metrics: its position and locals, and as history
\* `quiet` (no record_injection and no reset has run since before it began)
\* and `seen` (the calls made before it began).
IdleCalculator ==
    [pc |-> "idle", total_packets |-> 0, successful_packets |-> 0,
     success_rate |-> SuccessRate(0, 0), bytes_transmitted |-> 0,
     quiet |-> FALSE, seen |-> NoCalls]

CalculatorMid == {"loaded_total", "loaded_successful", "loaded_bytes"}

\* The thread in reset: its position, and as history how many resets have
\* begun.
IdleReset == [pc |-> "idle", ran |-> 0]

\* A record_injection or a reset begins: a calculate_metrics under way is no
\* longer alone.
Disturbed(c) == IF c.pc \in CalculatorMid THEN [c EXCEPT !.quiet = FALSE] ELSE c

\* record_injection(bytes, success, latency), first statement:
\* packets_injected.fetch_add(1)
RecordPackets(t, bytes, success) ==
    /\ rec # <<>>
    /\ rec[t].pc = "idle"
    /\ calls.count < MaxRecords
    /\ packets_injected' = packets_injected + 1
    /\ rec' = [rec EXCEPT ![t] = [pc |-> "bytes", bytes |-> bytes,
                                  success |-> success]]
    /\ calls' = [count |-> calls.count + 1, bytes |-> calls.bytes + bytes,
                 overlapped |-> calls.overlapped
                                  \/ \E u \in Recorders :
                                         rec[u].pc \notin {"idle", "absent"}]
    /\ calc' = [k \in Calculators |-> Disturbed(calc[k])]
    /\ UNCHANGED <<engineSide, auxVars, successful_injections, bytes_transmitted,
                   last_metrics, metrics_task, poolVars, limiterVars, rst>>

\* RecordBytes as it would be if the bytes of a failed injection were not
\* counted.
RecordBytesOfSuccesses(t) ==
    /\ rec # <<>>
    /\ rec[t].pc = "bytes"
    /\ bytes_transmitted' =
           IF rec[t].success THEN bytes_transmitted + rec[t].bytes
           ELSE bytes_transmitted
    /\ rec' = [rec EXCEPT ![t] =
                 IF rec[t].success THEN [@ EXCEPT !.pc = "successful"]
                 ELSE IdleRecorder]
    /\ UNCHANGED <<engineSide, auxVars, packets_injected, successful_injections,
                   last_metrics, metrics_task, poolVars, limiterVars,
                   calc, rst, calls>>

\* bytes_transmitted.fetch_add(bytes), and the test of `success`.
RecordBytes(t) ==
    /\ rec # <<>>
    /\ rec[t].pc = "bytes"
    /\ bytes_transmitted' = bytes_transmitted + rec[t].bytes
    /\ rec' = [rec EXCEPT ![t] =
                 IF rec[t].success THEN [@ EXCEPT !.pc = "successful"]
                 ELSE IdleRecorder]
    /\ UNCHANGED <<engineSide, auxVars, packets_injected, successful_injections,
                   last_metrics, metrics_task, poolVars, limiterVars,
                   calc, rst, calls>>

\* if success { successful_injections.fetch_add(1) }
RecordSuccessful(t) ==
    /\ rec # <<>>
    /\ rec[t].pc = "successful"
    /\ successful_injections' = successful_injections + 1
    /\ rec' = [rec EXCEPT ![t] = IdleRecorder]
    /\ UNCHANGED <<engineSide, auxVars, packets_injected, bytes_transmitted,
                   last_metrics, metrics_task, poolVars, limiterVars,
                   calc, rst, calls>>

\* calculate_metrics: let total_packets = packets_injected.load()
CalcLoadTotal(k) ==
    /\ calc # <<>>
    /\ calc[k].pc \in {"idle", "done"}
    /\ calc' = [calc EXCEPT ![k] =
                  [IdleCalculator EXCEPT
                     !.pc = "loaded_total",
                     !.total_packets = packets_injected,
                     !.quiet = /\ \A t \in Recorders :
                                      rec[t].pc \in {"idle", "absent"}
                               /\ rst.ran = 0,
                     !.seen = calls]]
    /\ UNCHANGED <<engineSide, auxVars, metricVars, poolVars, limiterVars,
                   rec, rst, calls>>

\* let successful_packets = successful_injections.load(), and the division
CalcLoadSuccessful(k) ==
    /\ calc # <<>>
    /\ calc[k].pc = "loaded_total"
    /\ calc' = [calc EXCEPT
                  ![k].pc = "loaded_successful",
                  ![k].successful_packets = successful_injections,
                  ![k].success_rate = SuccessRate(successful_injections,
                                                  calc[k].total_packets)]
    /\ UNCHANGED <<engineSide, auxVars, metricVars, poolVars, limiterVars,
                   rec, rst, calls>>

\* bytes_transmitted: bytes_transmitted.load()
CalcLoadBytes(k) ==
    /\ calc # <<>>
    /\ calc[k].pc = "loaded_successful"
    /\ calc' = [calc EXCEPT ![k].pc = "loaded_bytes",
                            ![k].bytes_transmitted = bytes_transmitted]
    /\ UNCHANGED <<engineSide, auxVars, metricVars, poolVars, limiterVars,
                   rec, rst, calls>>

\* *last_metrics.write() = new_metrics.clone(); new_metrics
CalcPublish(k) ==
    /\ calc # <<>>
    /\ calc[k].pc = "loaded_bytes"
    /\ last_metrics' = Snapshot(calc[k].total_packets,
                                calc[k].successful_packets,
                                calc[k].bytes_transmitted)
    /\ calc' = [calc EXCEPT ![k].pc = "done"]
    /\ UNCHANGED <<engineSide, auxVars, packets_injected, successful_injections,
                   bytes_transmitted, metrics_task, poolVars, limiterVars,
                   rec, rst, calls>>

\* reset: packets_injected.store(0)
ResetPackets ==
    /\ rst # <<>>
    /\ rst.pc = "idle"
    /\ rst.ran < MaxResets
    /\ packets_injected' = 0
    /\ rst' = [pc |-> "packets", ran |-> rst.ran + 1]
    /\ calc' = [k \in Calculators |-> Disturbed(calc[k])]
    /\ UNCHANGED <<engineSide, auxVars, successful_injections, bytes_transmitted,
                   last_metrics, metrics_task, poolVars, limiterVars,
                   rec, calls>>

\* successful_injections.store(0)
ResetSuccessful ==
    /\ rst # <<>>
    /\ rst.pc = "packets"
    /\ successful_injections' = 0
    /\ rst' = [rst EXCEPT !.pc = "successful"]
    /\ UNCHANGED <<engineSide, auxVars, packets_injected, bytes_transmitted,
                   last_metrics, metrics_task, poolVars, limiterVars,
                   rec, calc, calls>>

\* bytes_transmitted.store(0)
ResetBytes ==
    /\ rst # <<>>
    /\ rst.pc = "successful"
    /\ bytes_transmitted' = 0
    /\ rst' = [rst EXCEPT !.pc = "bytes"]
    /\ UNCHANGED <<engineSide, auxVars, packets_injected, successful_injections,
                   last_metrics, metrics_task, poolVars, limiterVars,
                   rec, calc, calls>>

\* *last_metrics.write() = Metrics::default()
ResetPublish ==
    /\ rst # <<>>
    /\ rst.pc = "bytes"
    /\ last_metrics' = DefaultMetrics
    /\ rst' = [rst EXCEPT !.pc = "idle"]
    /\ UNCHANGED <<engineSide, auxVars, packets_injected, successful_injections,
                   bytes_transmitted, metrics_task, poolVars, limiterVars,
                   rec, calc, calls>>

\* MetricsCollector::new: the counters at zero (as EngineUnused leaves them)
\* and no call under way; `recorders` and `calculators` are the threads and
\* tasks there are ("absent": no such thread).
CollectorNew(recorders, calculators) ==
    /\ EngineUnused
    /\ PoolUnused
    /\ LimiterUnused
    /\ rec = [t \in Recorders |->
                IF t \in recorders THEN IdleRecorder
                ELSE [IdleRecorder EXCEPT !.pc = "absent"]]
    /\ calc = [k \in Calculators |->
                 IF k \in calculators THEN IdleCalculator
                 ELSE [IdleCalculator EXCEPT !.pc = "absent"]]
    /\ rst = IdleReset
    /\ calls = NoCalls
    /\ TargetsUnused
    /\ WindowUnused
    /\ BusUnused
    /\ PacingUnused
    /\ LateUnused

CollectorInit == CollectorNew(Recorders, 1..NumLoneCalculators)

CollectorNext ==
    \/ \E t \in Recorders, bytes \in RecordSizes, success \in BOOLEAN :
           RecordPackets(t, bytes, success)
    \/ \E t \in Recorders : RecordBytes(t)
    \/ \E t \in Recorders : RecordSuccessful(t)
    \/ \E k \in Calculators : CalcLoadTotal(k)
    \/ \E k \in Calculators : CalcLoadSuccessful(k)
    \/ \E k \in Calculators : CalcLoadBytes(k)
    \/ \E k \in Calculators : CalcPublish(k)
    \/ ResetPackets
    \/ ResetSuccessful
    \/ ResetBytes
    \/ ResetPublish

CollectorSpec == CollectorInit /\ [][CollectorNext]_vars

\* The collector with calculate_metrics() run by several tasks at once.
PublishInit == CollectorNew(1..NumLoneRecorders, Calculators)

PublishSpec == PublishInit /\ [][CollectorNext]_vars

\* --------------------------------------------------- TargetMetricsCollector
\* The addresses activity is recorded for.
Macs == {"11:22:33:44:55:66", "aa:bb:cc:dd:ee:ff"}

\* No entry in the map.
NoTarget == [packets_sent |-> -1, success_rate |-> [num |-> 0, den |-> 1]]

\* The entry or_insert_with builds: nothing sent, success_rate 0.0.  A rate
\* is the exact fraction num / den (the code computes it in f64).
NewTarget == [packets_sent |-> 0, success_rate |-> [num |-> 0, den |-> 1]]

\* The update as it would be with the weights exchanged: 0.1 of the previous
\* rate and 0.9 of the outcome.
EmaWeightsExchanged(rate, success) ==
    [num |-> rate.num + (IF success THEN 9 * rate.den ELSE 0),
     den |-> 10 * rate.den]

\* (success_rate * 0.9) + (1.0 * 0.1) on success,
\* (success_rate * 0.9) + (0.0 * 0.1) on failure
Ema(rate, success) ==
    [num |-> 9 * rate.num + (IF success THEN rate.den ELSE 0),
     den |-> 10 * rate.den]

\* TargetMetricsCollector::record_target_activity, on the map: the entry is
\* inserted if missing, packets_sent grows by one and the rate is updated.
RecordActivity(targets, mac, success) ==
    LET entry == IF targets[mac] = NoTarget THEN NewTarget ELSE targets[mac] IN
    [targets EXCEPT ![mac] =
        [packets_sent |-> entry.packets_sent + 1,
         success_rate |-> Ema(entry.success_rate, success)]]

\* A call of record_target_activity(mac, success), made under the map's
\* write lock.
RecordTargetActivity(mac, success) ==
    /\ target_metrics # <<>>
    /\ Len(target_metrics.activity[mac]) < MaxActivity
    /\ target_metrics' =
           [targets |-> RecordActivity(target_metrics.targets, mac, success),
            activity |-> [target_metrics.activity EXCEPT
                              ![mac] = Append(@, success)]]
    /\ UNCHANGED <<engineSide, metricVars, poolVars, limiterVars,
                   collectorVars, window, bus, pacing,
                lateVars>>

\* TargetMetricsCollector::new: an empty map.
TargetInit ==
    /\ EngineUnused
    /\ PoolUnused
    /\ LimiterUnused
    /\ CollectorUnused
    /\ target_metrics = [targets |-> [m \in Macs |-> NoTarget],
                         activity |-> [m \in Macs |-> <<>>]]
    /\ WindowUnused
    /\ BusUnused
    /\ PacingUnused
    /\ LateUnused

TargetNext ==
    \E mac \in Macs, success \in BOOLEAN : RecordTargetActivity(mac, success)

TargetSpec == TargetInit /\ [][TargetNext]_vars

\* ------------------------------------------------ metrics broadcast channel
\* tokio's broadcast channel as the engine uses it: a ring of the last
\* BusCapacity values sent, and receivers that each hold the position of the
\* value they take next.  A snapshot is named by its number in the order of
\* publication; `since` and `got` are history: the snapshots published
\* before the receiver subscribed, and those it has received.
Subscribers == 1..NumSubscribers

NoReceiver == [open |-> FALSE, next |-> 0, since |-> 0, got |-> {}]

\* broadcast::channel(capacity): nothing sent, the one receiver it returns
\* dropped at once (engine.rs:128 binds it to `_`).
BusNew ==
    [published |-> 0, pos |-> 0, ring |-> <<>>,
     rx |-> [s \in Subscribers |-> NoReceiver]]

\* Position of the oldest value still in the ring.
OldestRetained(b) == b.pos - Len(b.ring)

\* The start of a new receiver as it would be on a channel that replays what
\* it retains.
ReplayPosition(b) == b.pos - Len(b.ring)

\* The position a new receiver starts from: the channel's tail, behind every
\* value sent so far.
TailPosition(b) == b.pos

\* metrics_tx.send(update) of snapshot number id: with no receiver the value
\* is handed back as an error and nothing is stored; otherwise it goes into
\* the ring, pushing out the oldest value when the ring is full.
BusSend(b, id) ==
    IF \A s \in Subscribers : ~b.rx[s].open
    THEN [b EXCEPT !.published = id]
    ELSE [b EXCEPT !.published = id,
                   !.pos = @ + 1,
                   !.ring = IF Len(@) < BusCapacity
                            THEN Append(@, id) ELSE Append(Tail(@), id)]

\* The publish task's iteration: calculate_metrics() and the send of the
\* snapshot.
Publish ==
    /\ bus # <<>>
    /\ bus.published < MaxPublished
    /\ bus' = BusSend(bus, bus.published + 1)
    /\ UNCHANGED <<engineSide, metricVars, poolVars, limiterVars,
                   collectorVars, target_metrics, window, pacing,
                lateVars>>

\* subscribe_metrics(): metrics_tx.subscribe()
SubscribeMetrics(s) ==
    /\ bus # <<>>
    /\ ~bus.rx[s].open
    /\ bus' = [bus EXCEPT !.rx[s] = [open |-> TRUE, next |-> TailPosition(bus),
                                     since |-> bus.published, got |-> {}]]
    /\ UNCHANGED <<engineSide, metricVars, poolVars, limiterVars,
                   collectorVars, target_metrics, window, pacing,
                lateVars>>

\* Receiver::recv() with something to return: Lagged when the value at the
\* receiver's position has been pushed out (the receiver moves to the oldest
\* value retained), else the value at its position.
Recv(s) ==
    /\ bus # <<>>
    /\ bus.rx[s].open
    /\ bus.rx[s].next < bus.pos
    /\ bus' = IF bus.rx[s].next < OldestRetained(bus)
              THEN [bus EXCEPT !.rx[s].next = OldestRetained(bus)]
              ELSE [bus EXCEPT
                      !.rx[s].next = @ + 1,
                      !.rx[s].got = @ \cup
                          {bus.ring[bus.rx[s].next - OldestRetained(bus) + 1]}]
    /\ UNCHANGED <<engineSide, metricVars, poolVars, limiterVars,
                   collectorVars, target_metrics, window, pacing,
                lateVars>>

\* The receiver is dropped.
DropReceiver(s) ==
    /\ bus # <<>>
    /\ bus.rx[s].open
    /\ bus' = [bus EXCEPT !.rx[s] = NoReceiver]
    /\ UNCHANGED <<engineSide, metricVars, poolVars, limiterVars,
                   collectorVars, target_metrics, window, pacing,
                lateVars>>

BusInit ==
    /\ EngineUnused
    /\ PoolUnused
    /\ LimiterUnused
    /\ CollectorUnused
    /\ TargetsUnused
    /\ WindowUnused
    /\ bus = BusNew
    /\ PacingUnused
    /\ LateUnused

BusNext ==
    \/ Publish
    \/ \E s \in Subscribers : SubscribeMetrics(s)
    \/ \E s \in Subscribers : Recv(s)
    \/ \E s \in Subscribers : DropReceiver(s)

BusSpec == BusInit /\ [][BusNext]_vars

(***************************************************************************)
(* The worker's pacing (engine.rs spawn_worker): one worker thread and its *)
(* clock, in microseconds.  A send takes any time; a sleep lasts as long   *)
(* as was asked for or longer.  started and finished keep when the latest  *)
(* send began and when the one before it ended.                            *)
(***************************************************************************)

\* max_rate_per_worker as configured: 0, rates whose interval is 4, 3 (of
\* 3 1/3) and 2 microseconds, and a rate above one per microsecond.
PacingRates == {0, 250000, 300000, 500000, 2000000}

\* Duration::from_micros(1_000_000 / max_rate as u64)
MinInterval(max_rate) == MicrosPerSecond \div max_rate

PaceFrame ==
    UNCHANGED <<engineSide, metricVars, poolVars, limiterVars, collectorVars,
                target_metrics, window, bus,
                lateVars>>

\* thread::spawn: last_injection = Instant::now(), then the division, which
\* panics when max_rate is 0.
PaceStart ==
    /\ pacing # <<>>
    /\ pacing.pc = "spawned"
    /\ pacing' = IF pacing.max_rate = 0
                 THEN [pacing EXCEPT !.pc = "panicked"]
                 ELSE [pacing EXCEPT !.pc = "loop",
                                     !.last_injection = pacing.now,
                                     !.min_interval = MinInterval(pacing.max_rate)]
    /\ PaceFrame

\* PacePop as it would be without the sleep.
PacePopUnthrottled ==
    /\ pacing # <<>>
    /\ pacing.pc = "loop"
    /\ pacing.sends < MaxSends
    /\ pacing' = [pacing EXCEPT !.start_time = pacing.now, !.pc = "send"]
    /\ PaceFrame

\* request_queue.pop() returned a request: start_time = Instant::now(); if
\* start_time - last_injection < min_interval, sleep the shortfall.
PacePop ==
    /\ pacing # <<>>
    /\ pacing.pc = "loop"
    /\ pacing.sends < MaxSends
    /\ LET since == pacing.now - pacing.last_injection
       IN  pacing' = IF since < pacing.min_interval
                     THEN [pacing EXCEPT !.start_time = pacing.now,
                                         !.wake = pacing.now + (pacing.min_interval - since),
                                         !.pc = "sleep"]
                     ELSE [pacing EXCEPT !.start_time = pacing.now,
                                         !.pc = "send"]
    /\ PaceFrame

\* thread::sleep returns once the requested time has passed.
PaceWake ==
    /\ pacing # <<>>
    /\ pacing.pc = "sleep"
    /\ pacing.now >= pacing.wake
    /\ pacing' = [pacing EXCEPT !.pc = "send"]
    /\ PaceFrame

\* process_injection_request begins.
PaceSendStart ==
    /\ pacing # <<>>
    /\ pacing.pc = "send"
    /\ pacing' = [pacing EXCEPT !.pc = "sending", !.started = pacing.now]
    /\ PaceFrame

\* process_injection_request returns and the outcome is recorded.
PaceSendEnd ==
    /\ pacing # <<>>
    /\ pacing.pc = "sending"
    /\ pacing' = [pacing EXCEPT !.pc = "sent",
                                !.finished = pacing.now,
                                !.sends = pacing.sends + 1]
    /\ PaceFrame

\* last_injection = Instant::now()
PaceMark ==
    /\ pacing # <<>>
    /\ pacing.pc = "sent"
    /\ pacing' = [pacing EXCEPT !.pc = "loop", !.last_injection = pacing.now]
    /\ PaceFrame

\* while running.load(Relaxed) finds the flag cleared.
PaceStop ==
    /\ pacing # <<>>
    /\ pacing.pc = "loop"
    /\ pacing' = [pacing EXCEPT !.pc = "done"]
    /\ PaceFrame

\* A microsecond passes.
PaceTick ==
    /\ pacing # <<>>
    /\ pacing.now < MaxClock
    /\ pacing' = [pacing EXCEPT !.now = pacing.now + 1]
    /\ PaceFrame

PacingInit ==
    /\ EngineUnused
    /\ PoolUnused
    /\ LimiterUnused
    /\ CollectorUnused
    /\ TargetsUnused
    /\ WindowUnused
    /\ BusUnused
    /\ LateUnused
    /\ \E r \in PacingRates :
           pacing = [max_rate |-> r, pc |-> "spawned", now |-> 0,
                     last_injection |-> 0, min_interval |-> 0,
                     start_time |-> 0, wake |-> 0, sends |-> 0,
                     started |-> 0, finished |-> 0]

PacingNext ==
    \/ PaceStart
    \/ PacePop
    \/ PaceWake
    \/ PaceSendStart
    \/ PaceSendEnd
    \/ PaceMark
    \/ PaceStop
    \/ PaceTick

PacingSpec == PacingInit /\ [][PacingNext]_vars

(***************************************************************************)
(* MetricsCollector, the sample queues (metrics.rs): packet_timestamps and *)
(* latency_samples, the rates and the mean that calculate_metrics derives  *)
(* from them, and the peak it keeps in last_metrics.  The counters of the  *)
(* same snapshot are followed in CollectorSpec.  Every pop, push and lock  *)
(* is a step of its own.  before_ts and before_lat keep what the queues    *)
(* held when a call began, quiet whether the call ran with nothing else    *)
(* touching the queues, and max_seen the largest rate published so far.    *)
(***************************************************************************)

WinCalculators == 1..NumCalculators

\* Latencies a send may have taken, in microseconds.
Latencies == {1, 4}

\* Metrics::default(), the fields derived from the queues.
NoRates == [packets_per_second |-> 0, peak_pps |-> 0, avg_latency_us |-> 0]

IdleWindowCalc ==
    [pc |-> "idle", now |-> 0, recent_packets |-> 0, to_keep |-> <<>>,
     total_latency |-> 0, latency_count |-> 0, avg_latency_us |-> 0,
     peak_pps |-> 0, before_ts |-> <<>>, before_lat |-> <<>>,
     quiet |-> TRUE, runs |-> 0]

WinMid(c) == c.pc \notin {"absent", "idle"}

\* Another thread touches the queues: no call in progress ran alone.
WinDisturbed(calcs) ==
    [k \in WinCalculators |->
        IF WinMid(calcs[k]) THEN [calcs[k] EXCEPT !.quiet = FALSE] ELSE calcs[k]]

Max(a, b) == IF a > b THEN a ELSE b

Reverse(s) == [i \in 1..Len(s) |-> s[Len(s) + 1 - i]]

\* Recent as it would be with a strict comparison.
RecentStrict(timestamp, now) == timestamp > now - OneSecond

\* timestamp >= one_second_ago, where one_second_ago = now - 1 s
Recent(timestamp, now) == timestamp >= now - OneSecond

\* MostRecent as it would be if it took the samples from the front.
Oldest(samples, n) == SubSeq(samples, 1, Min(n, Len(samples)))

\* .into_iter().rev().take(window_size), pushed back in .iter().rev() order
MostRecent(samples, n) ==
    Reverse(SubSeq(Reverse(samples), 1, Min(n, Len(samples))))

WinFrame ==
    UNCHANGED <<engineSide, metricVars, poolVars, limiterVars, collectorVars,
                target_metrics, bus, pacing,
                lateVars>>

\* record_injection: packet_timestamps.push(Instant::now())
WinRecordTimestamp ==
    /\ window # <<>>
    /\ window.rec = "idle"
    /\ window.left > 0
    /\ window' = [window EXCEPT
           !.packet_timestamps = Append(@, window.now),
           !.rec = "latency",
           !.calc = WinDisturbed(@)]
    /\ WinFrame

\* record_injection: latency_samples.push(latency); n numbers the samples
\* as they arrive.
WinRecordLatency(latency) ==
    /\ window # <<>>
    /\ window.rec = "latency"
    /\ window' = [window EXCEPT
           !.latency_samples =
               Append(@, [us |-> latency, n |-> window.arrived + 1]),
           !.arrived = @ + 1,
           !.rec = "idle",
           !.left = @ - 1,
           !.calc = WinDisturbed(@)]
    /\ WinFrame

\* calculate_metrics: now = Instant::now(), the locals of the first loop
WinBegin(k) ==
    /\ window # <<>>
    /\ window.calc[k].pc = "idle"
    /\ window.calc[k].runs < MaxRuns
    /\ LET others == \E j \in WinCalculators : j # k /\ WinMid(window.calc[j])
           calcs == WinDisturbed(window.calc)
       IN  window' = [window EXCEPT !.calc =
               [calcs EXCEPT ![k] =
                   [IdleWindowCalc EXCEPT
                       !.pc = "drain_timestamps",
                       !.now = window.now,
                       !.before_ts = window.packet_timestamps,
                       !.before_lat = window.latency_samples,
                       !.quiet = ~others,
                       !.runs = window.calc[k].runs]]]
    /\ WinFrame

\* while let Some(timestamp) = packet_timestamps.pop() { ... }
WinPopTimestamp(k) ==
    /\ window # <<>>
    /\ window.calc[k].pc = "drain_timestamps"
    /\ LET c == window.calc[k]
           q == window.packet_timestamps
       IN  IF q = <<>>
           THEN window' = [window EXCEPT !.calc[k].pc = "keep_timestamps"]
           ELSE window' = [window EXCEPT
                    !.packet_timestamps = Tail(q),
                    !.calc[k] =
                        IF Recent(Head(q), c.now)
                        THEN [c EXCEPT !.recent_packets = @ + 1,
                                       !.to_keep = Append(@, Head(q))]
                        ELSE c]
    /\ WinFrame

\* for timestamp in timestamps_to_keep { packet_timestamps.push(timestamp) }
WinPushTimestamp(k) ==
    /\ window # <<>>
    /\ window.calc[k].pc = "keep_timestamps"
    /\ LET c == window.calc[k]
       IN  IF c.to_keep = <<>>
           THEN window' = [window EXCEPT !.calc[k].pc = "drain_latency"]
           ELSE window' = [window EXCEPT
                    !.packet_timestamps = Append(@, Head(c.to_keep)),
                    !.calc[k].to_keep = Tail(c.to_keep)]
    /\ WinFrame

\* while let Some(latency) = latency_samples.pop() { ... }, then the most
\* recent window_size of the drained samples are chosen.
WinPopLatency(k) ==
    /\ window # <<>>
    /\ window.calc[k].pc = "drain_latency"
    /\ LET c == window.calc[k]
           q == window.latency_samples
       IN  IF q = <<>>
           THEN window' = [window EXCEPT
                    !.calc[k].pc = "keep_latency",
                    !.calc[k].to_keep = MostRecent(c.to_keep, WindowSize)]
           ELSE window' = [window EXCEPT
                    !.latency_samples = Tail(q),
                    !.calc[k].total_latency = @ + Head(q).us,
                    !.calc[k].latency_count = @ + 1,
                    !.calc[k].to_keep = Append(@, Head(q))]
    /\ WinFrame

\* for latency in latency_samples_to_keep.iter().rev() { push }, then
\* avg_latency_us = total_latency / latency_count, or 0
WinPushLatency(k) ==
    /\ window # <<>>
    /\ window.calc[k].pc = "keep_latency"
    /\ LET c == window.calc[k]
       IN  IF c.to_keep = <<>>
           THEN window' = [window EXCEPT
                    !.calc[k].pc = "read_peak",
                    !.calc[k].avg_latency_us =
                        IF c.latency_count > 0
                        THEN c.total_latency \div c.latency_count
                        ELSE 0]
           ELSE window' = [window EXCEPT
                    !.latency_samples = Append(@, Head(c.to_keep)),
                    !.calc[k].to_keep = Tail(c.to_keep)]
    /\ WinFrame

\* current_metrics = last_metrics.read().clone();
\* peak_pps = current_metrics.peak_pps.max(recent_packets)
WinReadPeak(k) ==
    /\ window # <<>>
    /\ window.calc[k].pc = "read_peak"
    /\ window' = [window EXCEPT
           !.calc[k].pc = "publish",
           !.calc[k].peak_pps =
               Max(window.last_metrics.peak_pps, window.calc[k].recent_packets)]
    /\ WinFrame

\* *last_metrics.write() = new_metrics.clone()
WinPublish(k) ==
    /\ window # <<>>
    /\ window.calc[k].pc = "publish"
    /\ LET c == window.calc[k]
       IN  window' = [window EXCEPT
               !.last_metrics = [packets_per_second |-> c.recent_packets,
                                 peak_pps |-> c.peak_pps,
                                 avg_latency_us |-> c.avg_latency_us],
               !.max_seen = Max(@, c.recent_packets),
               !.calc[k] = [IdleWindowCalc EXCEPT !.runs = c.runs + 1]]
    /\ WinFrame

\* Half a second passes.
WinTick ==
    /\ window # <<>>
    /\ window.now < MaxWindowTime
    /\ window' = [window EXCEPT !.now = @ + TickMillis]
    /\ WinFrame

\* MetricsCollector::new, with the tasks that call calculate_metrics, the
\* injections to come, the calls each task has left, and the time of day.
WindowNew(calculators, samples, turns, start) ==
    /\ EngineUnused
    /\ PoolUnused
    /\ LimiterUnused
    /\ CollectorUnused
    /\ TargetsUnused
    /\ BusUnused
    /\ PacingUnused
    /\ LateUnused
    /\ window = [now |-> start,
                 packet_timestamps |-> <<>>,
                 latency_samples |-> <<>>,
                 arrived |-> 0,
                 last_metrics |-> NoRates,
                 rec |-> "idle",
                 left |-> samples,
                 calc |-> [k \in WinCalculators |->
                              IF k \in calculators
                              THEN [IdleWindowCalc EXCEPT !.runs = MaxRuns - turns]
                              ELSE [IdleWindowCalc EXCEPT !.pc = "absent"]],
                 max_seen |-> 0]

WindowInit == WindowNew(1..NumLoneCalculators, MaxSamples, MaxRuns, 0)

WindowNext ==
    \/ WinRecordTimestamp
    \/ \E latency \in Latencies : WinRecordLatency(latency)
    \/ \E k \in WinCalculators : WinBegin(k)
    \/ \E k \in WinCalculators : WinPopTimestamp(k)
    \/ \E k \in WinCalculators : WinPushTimestamp(k)
    \/ \E k \in WinCalculators : WinPopLatency(k)
    \/ \E k \in WinCalculators : WinPushLatency(k)
    \/ \E k \in WinCalculators : WinReadPeak(k)
    \/ \E k \in WinCalculators : WinPublish(k)
    \/ WinTick

\* One task calls calculate_metrics.
WindowSpec == WindowInit /\ [][WindowNext]_vars

\* Two tasks call calculate_metrics.
PeakInit ==
    WindowNew(WinCalculators, MaxPeakSamples, MaxPeakRuns,
              MaxWindowTime - TickMillis)

PeakSpec == PeakInit /\ [][WindowNext]_vars

(***************************************************************************)
(* MetricsCollector, all of it, in the hands of one thread (metrics.rs):   *)
(* with no other thread at work each method is one step.  Rates are kept   *)
(* as fractions and utilization in percent; last_update, the wall-clock    *)
(* time of a snapshot, is left out.  fresh says that nothing was recorded  *)
(* since the last reset, calculated that calculate_metrics ran since, and  *)
(* soiled that something had been published before it.                    *)
(***************************************************************************)

\* Metrics::default()
ZeroMetrics ==
    [packets_injected |-> 0, packets_per_second |-> 0,
     success_rate |-> [num |-> 0, den |-> 1], bytes_transmitted |-> 0,
     channel_utilization |-> [num |-> 0, den |-> 1], active_targets |-> 0,
     avg_latency_us |-> 0, peak_pps |-> 0]

\* Utilization samples handed to record_channel_utilization, in percent.
Utilizations == {50, 150}

\* utilization.clamp(0.0, 1.0)
Clamp(utilization) == Max(0, Min(utilization, 100))

RECURSIVE Total(_)
Total(s) == IF s = <<>> THEN 0 ELSE Head(s) + Total(Tail(s))

\* MetricsCollector::new(window_size)
SoloNew ==
    [packets_injected |-> 0, successful_injections |-> 0,
     bytes_transmitted |-> 0, active_targets |-> 0,
     packet_timestamps |-> <<>>, latency_samples |-> <<>>,
     channel_samples |-> <<>>, last_metrics |-> ZeroMetrics,
     now |-> 0, ops |-> 0, fresh |-> FALSE, calculated |-> FALSE,
     soiled |-> FALSE]

SoloFrame ==
    UNCHANGED <<engineSide, metricVars, poolVars, limiterVars, collectorVars,
                target_metrics, window, bus, pacing, twins, cache, export>>

SoloCall == solo # <<>> /\ solo.ops < MaxSoloOps

\* record_injection(bytes, success, latency)
SoloRecordInjection(bytes, success, latency) ==
    /\ SoloCall
    /\ solo' = [solo EXCEPT
           !.packets_injected = @ + 1,
           !.bytes_transmitted = @ + bytes,
           !.successful_injections = IF success THEN @ + 1 ELSE @,
           !.packet_timestamps = Append(@, solo.now),
           !.latency_samples = Append(@, latency),
           !.ops = @ + 1, !.fresh = FALSE, !.calculated = FALSE]
    /\ SoloFrame

\* record_channel_utilization(utilization)
SoloRecordChannelUtilization(utilization) ==
    /\ SoloCall
    /\ solo' = [solo EXCEPT
           !.channel_samples = Append(@, Clamp(utilization)),
           !.ops = @ + 1, !.fresh = FALSE, !.calculated = FALSE]
    /\ SoloFrame

\* set_active_targets(count)
SoloSetActiveTargets(count) ==
    /\ SoloCall
    /\ solo' = [solo EXCEPT
           !.active_targets = count,
           !.ops = @ + 1, !.fresh = FALSE, !.calculated = FALSE]
    /\ SoloFrame

\* calculate_metrics()
SoloCalculateMetrics ==
    /\ SoloCall
    /\ LET kept == SelectSeq(solo.packet_timestamps,
                             LAMBDA ts : Recent(ts, solo.now))
           recent_packets == Len(kept)
           latency_count == Len(solo.latency_samples)
           utilization_count == Len(solo.channel_samples)
           new_metrics ==
               [packets_injected |-> solo.packets_injected,
                packets_per_second |-> recent_packets,
                success_rate |-> SuccessRate(solo.successful_injections,
                                             solo.packets_injected),
                bytes_transmitted |-> solo.bytes_transmitted,
                channel_utilization |->
                    IF utilization_count > 0
                    THEN [num |-> Total(solo.channel_samples),
                          den |-> utilization_count]
                    ELSE [num |-> 0, den |-> 1],
                active_targets |-> solo.active_targets,
                avg_latency_us |->
                    IF latency_count > 0
                    THEN Total(solo.latency_samples) \div latency_count
                    ELSE 0,
                peak_pps |-> Max(solo.last_metrics.peak_pps, recent_packets)]
       IN  solo' = [solo EXCEPT
               !.packet_timestamps = kept,
               !.latency_samples = MostRecent(@, WindowSize),
               !.channel_samples = MostRecent(@, WindowSize),
               !.last_metrics = new_metrics,
               !.ops = @ + 1, !.calculated = TRUE,
               !.soiled = @ \/ (~solo.fresh /\ new_metrics # ZeroMetrics)]
    /\ SoloFrame

\* SoloReset as it would be if it left the cached snapshot alone.
SoloResetKeepsSnapshot ==
    /\ SoloCall
    /\ solo' = [solo EXCEPT
           !.packets_injected = 0, !.successful_injections = 0,
           !.bytes_transmitted = 0, !.active_targets = 0,
           !.packet_timestamps = <<>>, !.latency_samples = <<>>,
           !.channel_samples = <<>>,
           !.ops = @ + 1, !.fresh = TRUE, !.calculated = FALSE]
    /\ SoloFrame

\* reset()
SoloReset ==
    /\ SoloCall
    /\ solo' = [solo EXCEPT
           !.packets_injected = 0, !.successful_injections = 0,
           !.bytes_transmitted = 0, !.active_targets = 0,
           !.packet_timestamps = <<>>, !.latency_samples = <<>>,
           !.channel_samples = <<>>, !.last_metrics = ZeroMetrics,
           !.ops = @ + 1, !.fresh = TRUE, !.calculated = FALSE]
    /\ SoloFrame

\* Half a second passes.
SoloTick ==
    /\ solo # <<>>
    /\ solo.now < MaxWindowTime
    /\ solo' = [solo EXCEPT !.now = @ + TickMillis]
    /\ SoloFrame

SoloInit ==
    /\ EngineUnused
    /\ PoolUnused
    /\ LimiterUnused
    /\ CollectorUnused
    /\ TargetsUnused
    /\ WindowUnused
    /\ BusUnused
    /\ PacingUnused
    /\ solo = SoloNew
    /\ twins = <<>>
    /\ cache = <<>>
    /\ export = <<>>

SoloNext ==
    \/ \E success \in BOOLEAN, latency \in Latencies :
           SoloRecordInjection(TestBytes, success, latency)
    \/ \E utilization \in Utilizations : SoloRecordChannelUtilization(utilization)
    \/ SoloSetActiveTargets(NumWorkers)
    \/ SoloCalculateMetrics
    \/ SoloReset
    \/ SoloTick

SoloSpec == SoloInit /\ [][SoloNext]_vars

(***************************************************************************)
(* The two RateLimiters side by side: `wide` is the one of core/engine.rs  *)
(* (AtomicU64 tokens), `narrow` the one of network/injection.rs (AtomicU32 *)
(* tokens), built with the same max_rate at the same instant and called at *)
(* the same times.  tokens_to_add is a u64 in both; the narrow one casts   *)
(* it to its counter's width and adds in that width, which panics in a     *)
(* build with overflow checks and wraps in one without.  results keeps     *)
(* what the latest call returned in each, added its tokens_to_add.         *)
(***************************************************************************)

TwinRates == {0, 2, 5}

\* How far the clock moves between two calls.
TwinSteps == {500, 4000, 8000}

\* NarrowRefill as it would be without `.min(self.max_rate)`.
NarrowRefillUncapped(l, now, checked) ==
    LET tokens_to_add == TokensToAdd(l.max_rate, DurationSince(now, l.last_refill))
        sum == l.tokens + (tokens_to_add % NarrowModulus)
    IN  IF tokens_to_add = 0 THEN [limiter |-> l, panicked |-> FALSE]
        ELSE IF sum >= NarrowModulus /\ checked
        THEN [limiter |-> l, panicked |-> TRUE]
        ELSE [limiter |-> [l EXCEPT !.tokens = sum % NarrowModulus,
                                    !.last_refill = now],
              panicked |-> FALSE]

\* try_acquire of network/injection.rs, the refill:
\* (current_tokens + tokens_to_add as u32).min(self.max_rate)
NarrowRefill(l, now, checked) ==
    LET tokens_to_add == TokensToAdd(l.max_rate, DurationSince(now, l.last_refill))
        sum == l.tokens + (tokens_to_add % NarrowModulus)
    IN  IF tokens_to_add = 0 THEN [limiter |-> l, panicked |-> FALSE]
        ELSE IF sum >= NarrowModulus /\ checked
        THEN [limiter |-> l, panicked |-> TRUE]
        ELSE [limiter |-> [l EXCEPT !.tokens = Min(sum % NarrowModulus, l.max_rate),
                                    !.last_refill = now],
              panicked |-> FALSE]

\* try_acquire of network/injection.rs at instant `now`.
NarrowTryAcquireAt(l, now, checked) ==
    LET r == NarrowRefill(l, now, checked) IN
    IF r.panicked THEN [limiter |-> r.limiter, result |-> "panicked"]
    ELSE IF r.limiter.tokens > 0
    THEN [limiter |-> [r.limiter EXCEPT !.tokens = @ - 1], result |-> "granted"]
    ELSE [limiter |-> r.limiter, result |-> "denied"]

TwinFrame ==
    UNCHANGED <<engineSide, metricVars, poolVars, limiterVars, collectorVars,
                target_metrics, window, bus, pacing, solo, cache, export>>

\* Both limiters are asked at the same instant.
TwinTryAcquire ==
    /\ twins # <<>>
    /\ LET w == TryAcquireAt(twins.wide, twins.now)
           n == NarrowTryAcquireAt(twins.narrow, twins.now, twins.checked)
       IN  twins' = [twins EXCEPT
               !.wide = w.limiter,
               !.narrow = n.limiter,
               !.results = [wide |-> IF w.granted THEN "granted" ELSE "denied",
                            narrow |-> n.result],
               !.added = TokensToAdd(twins.wide.max_rate,
                             DurationSince(twins.now, twins.wide.last_refill))]
    /\ TwinFrame

\* Time passes.
TwinTick(d) ==
    /\ twins # <<>>
    /\ twins.now + d <= MaxTwinTime
    /\ twins' = [twins EXCEPT !.now = @ + d]
    /\ TwinFrame

TwinInit ==
    /\ EngineUnused
    /\ PoolUnused
    /\ LimiterUnused
    /\ CollectorUnused
    /\ TargetsUnused
    /\ WindowUnused
    /\ BusUnused
    /\ PacingUnused
    /\ solo = <<>>
    /\ \E max_rate \in TwinRates, checked \in BOOLEAN :
           twins = [wide |-> RateLimiterNew(max_rate, 0),
                    narrow |-> RateLimiterNew(max_rate, 0),
                    now |-> 0, checked |-> checked,
                    results |-> [wide |-> "none", narrow |-> "none"],
                    added |-> 0]
    /\ cache = <<>>
    /\ export = <<>>

TwinNext ==
    \/ TwinTryAcquire
    \/ \E d \in TwinSteps : TwinTick(d)

TwinSpec == TwinInit /\ [][TwinNext]_vars

(***************************************************************************)
(* ThreadLocalBuffer (buffer.rs): one thread, its ThreadLocalBuffer and    *)
(* the PacketBuffer behind it, which the thread also uses directly.  A     *)
(* buffer is its capacity and the length of its content; an Option is a    *)
(* sequence of at most one element.  hand holds the buffers the thread     *)
(* owns, last the latest call: its name, the buffer it handed out or was   *)
(* given, and whether it went to the pool.                                 *)
(***************************************************************************)

BytesMut(capacity, len) == [capacity |-> capacity, len |-> len]

\* buffer.clear()
Clear(buffer) == [buffer EXCEPT !.len = 0]

\* PacketBuffer::acquire, with the content of the buffers.
AcquireCleared(pb) ==
    IF pb.pool # <<>>
    THEN [buffer |-> Clear(Head(pb.pool)), pb |-> [pb EXCEPT !.pool = Tail(@)]]
    ELSE [buffer |-> BytesMut(pb.buffer_size, 0), pb |-> pb]

\* PacketBuffer::release, with the content of the buffers.
ReleaseCleared(pb, buffer) ==
    IF buffer.capacity = pb.buffer_size /\ Len(pb.pool) < pb.pool_size
    THEN [pb EXCEPT !.pool = Append(@, Clear(buffer))]
    ELSE pb

Without(s, i) == SubSeq(s, 1, i - 1) \o SubSeq(s, i + 1, Len(s))

CacheFrame ==
    UNCHANGED <<engineSide, metricVars, poolVars, limiterVars, collectorVars,
                target_metrics, window, bus, pacing, solo, twins, export>>

CacheCall == cache # <<>> /\ cache.calls < MaxCacheOps

CacheCalled(op, buffer, pooled) ==
    [op |-> op, buffer |-> buffer, pooled |-> pooled]

\* get() as it would be if it went to the shared pool first.
GetFromPoolFirst ==
    /\ CacheCall
    /\ Len(cache.hand) < MaxHeld
    /\ IF cache.pool.pool # <<>> \/ cache.local_buffer = <<>>
       THEN LET r == AcquireCleared(cache.pool) IN
            cache' = [cache EXCEPT
                !.pool = r.pb,
                !.hand = Append(@, r.buffer),
                !.last = CacheCalled("get", r.buffer, TRUE),
                !.calls = @ + 1]
       ELSE cache' = [cache EXCEPT
                !.local_buffer = <<>>,
                !.hand = Append(@, cache.local_buffer[1]),
                !.last = CacheCalled("get", cache.local_buffer[1], FALSE),
                !.calls = @ + 1]
    /\ CacheFrame

\* ThreadLocalBuffer::get: local_buffer.take(), or pool.acquire() (which is
\* always Some, so that the fallback allocation is never made).
Get ==
    /\ CacheCall
    /\ Len(cache.hand) < MaxHeld
    /\ IF cache.local_buffer # <<>>
       THEN cache' = [cache EXCEPT
                !.local_buffer = <<>>,
                !.hand = Append(@, cache.local_buffer[1]),
                !.last = CacheCalled("get", cache.local_buffer[1], FALSE),
                !.calls = @ + 1]
       ELSE LET r == AcquireCleared(cache.pool) IN
            cache' = [cache EXCEPT
                !.pool = r.pb,
                !.hand = Append(@, r.buffer),
                !.last = CacheCalled("get", r.buffer, TRUE),
                !.calls = @ + 1]
    /\ CacheFrame

\* ThreadLocalBuffer::put(buffer): into the slot when it is empty, to
\* pool.release(buffer) otherwise.
Put(i) ==
    /\ CacheCall
    /\ i \in 1..Len(cache.hand)
    /\ IF cache.local_buffer = <<>>
       THEN cache' = [cache EXCEPT
                !.local_buffer = <<cache.hand[i]>>,
                !.hand = Without(@, i),
                !.last = CacheCalled("put", cache.hand[i], FALSE),
                !.calls = @ + 1]
       ELSE cache' = [cache EXCEPT
                !.pool = ReleaseCleared(@, cache.hand[i]),
                !.hand = Without(@, i),
                !.last = CacheCalled("put", cache.hand[i], TRUE),
                !.calls = @ + 1]
    /\ CacheFrame

\* The thread calls pool.acquire() itself.
CacheAcquire ==
    /\ CacheCall
    /\ Len(cache.hand) < MaxHeld
    /\ LET r == AcquireCleared(cache.pool) IN
       cache' = [cache EXCEPT
           !.pool = r.pb,
           !.hand = Append(@, r.buffer),
           !.last = CacheCalled("acquire", r.buffer, TRUE),
           !.calls = @ + 1]
    /\ CacheFrame

\* The thread calls pool.release(buffer) itself.
CacheRelease(i) ==
    /\ CacheCall
    /\ i \in 1..Len(cache.hand)
    /\ cache' = [cache EXCEPT
           !.pool = ReleaseCleared(@, cache.hand[i]),
           !.hand = Without(@, i),
           !.last = CacheCalled("release", cache.hand[i], TRUE),
           !.calls = @ + 1]
    /\ CacheFrame

\* The thread writes a packet into a buffer it owns.
CacheWrite(i) ==
    /\ cache # <<>>
    /\ i \in 1..Len(cache.hand)
    /\ cache.hand[i].len = 0
    /\ cache' = [cache EXCEPT !.hand[i].len = PacketSize]
    /\ CacheFrame

\* The thread allocates a buffer of its own, of another capacity.
CacheAllocate(capacity) ==
    /\ CacheCall
    /\ Len(cache.hand) < MaxHeld
    /\ cache' = [cache EXCEPT
           !.hand = Append(@, BytesMut(capacity, 0)),
           !.last = CacheCalled("allocate", BytesMut(capacity, 0), FALSE),
           !.calls = @ + 1]
    /\ CacheFrame

\* PacketBuffer::new and ThreadLocalBuffer::new(pool): an empty slot.
CacheInit ==
    /\ EngineUnused
    /\ PoolUnused
    /\ LimiterUnused
    /\ CollectorUnused
    /\ TargetsUnused
    /\ WindowUnused
    /\ BusUnused
    /\ PacingUnused
    /\ solo = <<>>
    /\ twins = <<>>
    /\ \E n \in 1..MaxPool :
           cache = [pool |-> [pool |-> [i \in 1..n |-> BytesMut(BufferSize, 0)],
                              buffer_size |-> BufferSize,
                              pool_size |-> n],
                    local_buffer |-> <<>>,
                    hand |-> <<>>,
                    last |-> CacheCalled("new", BytesMut(BufferSize, 0), FALSE),
                    calls |-> 0]
    /\ export = <<>>

CacheNext ==
    \/ Get
    \/ \E i \in 1..MaxHeld : Put(i)
    \/ CacheAcquire
    \/ \E i \in 1..MaxHeld : CacheRelease(i)
    \/ \E i \in 1..MaxHeld : CacheWrite(i)
    \/ \E capacity \in ForeignCapacities : CacheAllocate(capacity)

CacheSpec == CacheInit /\ [][CacheNext]_vars

(***************************************************************************)
(* ExportManager (gui/export.rs): the buffered packets, each one the       *)
(* length of its data, and the running total_bytes.  An Option is a        *)
(* sequence of at most one element.  The eviction by size is written       *)
(* `if let Some(removed) = self.packets.remove(0)`, on a Vec whose remove  *)
(* returns the element itself; it is taken for what it means: the first    *)
(* packet is removed and its length subtracted.                            *)
(***************************************************************************)

\* packet.data.len() of the packets added.
PacketLengths == {0, TestPacketLen, 6}

\* ExportConfig.max_packets and ExportConfig.max_size.
PacketLimits == {<<>>, <<1>>, <<2>>}
SizeLimits == {<<>>, <<8>>}

ExportFrame ==
    UNCHANGED <<engineSide, metricVars, poolVars, limiterVars, collectorVars,
                target_metrics, window, bus, pacing, solo, twins, cache>>

\* The eviction by size: the oldest packets go until total_bytes is within
\* max_size or no packet is left.
RECURSIVE EvictToSize(_, _, _)
EvictToSize(packets, total_bytes, max_size) ==
    IF total_bytes > max_size /\ packets # <<>>
    THEN EvictToSize(Tail(packets), total_bytes - Head(packets), max_size)
    ELSE [packets |-> packets, total_bytes |-> total_bytes]

\* ExportManager::add_packet(packet)
AddPacket(len) ==
    /\ export # <<>>
    /\ export.calls < MaxExportOps
    /\ LET total == export.total_bytes + len
           pushed == Append(export.packets, len)
           counted == IF /\ export.config.max_packets # <<>>
                         /\ Len(pushed) > export.config.max_packets[1]
                      THEN Tail(pushed)
                      ELSE pushed
           sized == IF export.config.max_size # <<>>
                    THEN EvictToSize(counted, total, export.config.max_size[1])
                    ELSE [packets |-> counted, total_bytes |-> total]
       IN  export' = [export EXCEPT
               !.packets = sized.packets,
               !.total_bytes = sized.total_bytes,
               !.calls = @ + 1]
    /\ ExportFrame

\* ExportManager::clear()
ExportClear ==
    /\ export # <<>>
    /\ export.calls < MaxExportOps
    /\ export' = [export EXCEPT !.packets = <<>>, !.total_bytes = 0,
                                !.calls = @ + 1]
    /\ ExportFrame

\* ExportManager::new(config)
ExportInit ==
    /\ EngineUnused
    /\ PoolUnused
    /\ LimiterUnused
    /\ CollectorUnused
    /\ TargetsUnused
    /\ WindowUnused
    /\ BusUnused
    /\ PacingUnused
    /\ solo = <<>>
    /\ twins = <<>>
    /\ cache = <<>>
    /\ \E max_packets \in PacketLimits, max_size \in SizeLimits :
           export = [config |-> [max_packets |-> max_packets,
                                 max_size |-> max_size],
                     packets |-> <<>>, total_bytes |-> 0, calls |-> 0]

ExportNext ==
    \/ \E len \in PacketLengths : AddPacket(len)
    \/ ExportClear

ExportSpec == ExportInit /\ [][ExportNext]_vars

\* ------------------------------------------------------------------ claims
\* A configuration new() is meant to accept.
ValidConfig ==
    /\ config.worker_threads > 0
    /\ config.max_rate_per_worker > 0
    /\ config.buffer_pool_size > 0

\* Request i was accepted by inject_deauth and waits in the control channel.
Submitted(i) ==
    \E k \in 1..Len(control) :
        /\ control[k].kind = "StartInjection"
        /\ control[k].request.id = i

\* Caller c is inside get_metrics().
InGetMetrics(c) ==
    \/ cpc[c] = "awaiting"
    \/ cpc[c] = "sending" /\ cop[c].kind = "GetMetrics"

ProcessingPcs == {"acquire", "send", "release", "record"}

IterationPcs == {"pop"} \cup ProcessingPcs

AllWorkersOut == \A w \in Workers : wpc[w] \notin LiveWorkerPcs

\* C1: on a started engine with a valid configuration every request that
\* inject_deauth accepted is eventually processed by a worker and recorded
\* in the metrics, unless the engine is shut down first.
C1_AcceptedRequestsProcessed ==
    \A i \in RequestIds :
        (ValidConfig /\ started /\ Submitted(i))
            ~> (processed[i] > 0 \/ ~running)

\* C2: on a started engine every get_metrics() call eventually returns, with
\* the snapshot or with an error, unless the engine is shut down first.
C2_GetMetricsCompletes ==
    \A c \in Callers :
        (ValidConfig /\ started /\ InGetMetrics(c))
            ~> (cpc[c] = "idle" \/ ~running)

\* C3: once the running flag is cleared every worker loop exits, and a worker
\* is inside an iteration (dequeuing or processing) only if the load of the
\* flag that began the iteration returned true.
C3_WorkersExitAfterShutdown ==
    /\ [](\A w \in Workers : wpc[w] \in IterationPcs => observed[w])
    /\ [](~running => <>AllWorkersOut)

\* C3 witness: after the flag was cleared one worker has left its loop while
\* another is still finishing the request it had dequeued.
C3_Witness ==
    /\ ~running
    /\ \E w \in Workers : wpc[w] = "done"
    /\ \E w \in Workers : wpc[w] \in ProcessingPcs

\* C4: a shutdown() that began on an engine that had been started and had
\* stopped is never left suspended in its send.
C4_ShutdownOnStoppedReturns ==
    \A c \in Callers :
        (ValidConfig /\ started) =>
            ~(cpc[c] = "sending" /\ cop[c].kind = "Shutdown" /\ pre_stopped[c])

\* C5: inject_deauth never waits for room in the control channel: on a full
\* or closed channel it has returned an error.
C5_FullChannelIsAnError ==
    \A c \in Callers :
        ValidConfig => ~(cpc[c] = "sending" /\ cop[c].kind = "StartInjection")

\* C6: a request put on the work queue after a stop was handled is never
\* transmitted by a worker nor about to be recorded in the metrics.
C6_NoNewWorkAfterStop ==
    \A w \in Workers : ~(wreq[w].late /\ wpc[w] \in {"release", "record"})

\* C7 as stated: the engine is marked running only between start() and
\* shutdown().
C7_RunningOnlyAfterStart ==
    (new_result = "ok" /\ running) => started

\* C7 amended: the running flag is set by new() and never set again, so once
\* shutdown() has cleared it no later step, start() included, returns the
\* engine to Running.
C7_RunningNeverSetAgain ==
    [][running' => running]_vars

\* C7 witness: the engine has been started and the flag is cleared while a
\* spawned thread has yet to reach its loop.
C7_Witness ==
    /\ ~running
    /\ started
    /\ \E w \in Workers : wpc[w] = "spawned"

\* C8: the step that records a failed send adds exactly one injection, no
\* bytes and no success, counts the request once, leaves every caller's
\* position and result untouched, and returns the worker to the head of its
\* loop.
C8_FailedSendRecorded ==
    [][\A w \in Workers :
          (wpc[w] = "record" /\ wres[w] = "err" /\ wpc'[w] # "record") =>
              /\ packets_injected' = packets_injected + 1
              /\ bytes_transmitted' = bytes_transmitted
              /\ successful_injections' = successful_injections
              /\ processed'[wreq[w].id] = processed[wreq[w].id] + 1
              /\ wpc'[w] = "check"
              /\ cpc' = cpc
              /\ failed' = failed]_vars

\* C8 witness: one failed injection is on record, and the only worker that
\* has run so far is processing the next request.
C8_Witness ==
    /\ packets_injected = 1
    /\ successful_injections = 0
    /\ bytes_transmitted = 0
    /\ \E w \in Workers :
           /\ wpc[w] \in ProcessingPcs
           /\ processed[wreq[w].id] = 0
           /\ \A v \in Workers \ {w} : wpc[v] = "spawned"

\* C9: a call that returned a control-plane error did not change the running
\* flag.
C9_FailedSubmissionKeepsRunning ==
    \A c \in Callers :
        (ValidConfig /\ started /\ failed[c]) => ~wrote_running[c]

\* C10: new() returns a configuration error for a configuration with zero
\* worker threads, a zero rate or a zero pool size.
C10_InvalidConfigRejected ==
    ~ValidConfig => new_result = "err"

\* Buffers built by PacketBuffer::new that are still in the pool or owned.
LivePoolBuffers ==
    {i \in 1..Len(buffer_pool.pool) : buffer_pool.pool[i].origin = "pool"}
        \cup {b.id : b \in {x \in UNION {held[t] : t \in PoolThreads} :
                                x.origin = "pool"}}

\* C11: no buffer has two owners: the buffers in the pool are distinct, a
\* buffer a thread owns is not in the pool, and no two threads own the same
\* buffer.
C11_NoSharedBuffer ==
    /\ PooledIds \cap HeldIds = {}
    /\ \A i, j \in 1..Len(buffer_pool.pool) :
           buffer_pool.pool[i].id = buffer_pool.pool[j].id => i = j
    /\ \A t, u \in PoolThreads :
           t # u => BufferIds(held[t]) \cap BufferIds(held[u]) = {}
    /\ \A t \in PoolThreads : Cardinality(BufferIds(held[t])) = Cardinality(held[t])

\* C11 witness: with the pool emptied, one thread owns a pooled buffer and
\* another a buffer acquire() allocated.
C11_Witness ==
    /\ buffer_pool # NoPool
    /\ buffer_pool.pool = <<>>
    /\ \E t, u \in PoolThreads :
           /\ t # u
           /\ \E b \in held[t] : b.origin = "pool"
           /\ \E b \in held[u] : b.origin = "fresh"

\* C12: the pool never holds more than pool_size buffers; a release into a
\* full pool can always be made and leaves the pool full.
C12_PoolNeverExceedsSize ==
    /\ Available(buffer_pool) <= buffer_pool.pool_size
    /\ \A t \in PoolThreads : held[t] # {} => ENABLED Release(t)
    /\ (last_op.op = "release" /\ last_op.before = buffer_pool.pool_size)
           => Available(buffer_pool) = buffer_pool.pool_size

\* C12 witness: a buffer of the pool's size has just been released into the
\* full pool.
C12_Witness ==
    /\ last_op.op = "release"
    /\ last_op.capacity = buffer_pool.buffer_size
    /\ last_op.before = buffer_pool.pool_size
    /\ Available(buffer_pool) = buffer_pool.pool_size

\* C13: acquire() can always be called; on an empty pool it returns a fresh
\* buffer of the pool's buffer size and leaves available at 0, and every
\* buffer it returns has that size.
C13_AcquireNeverFails ==
    /\ \A t \in PoolThreads :
           (buffer_pool # NoPool /\ Cardinality(held[t]) < MaxHeld)
               => ENABLED Acquire(t)
    /\ last_op.op = "acquire" =>
           /\ last_op.capacity = buffer_pool.buffer_size
           /\ last_op.id \in HeldIds
           /\ last_op.before = 0 =>
                  (last_op.origin = "fresh" /\ Available(buffer_pool) = 0)

\* C13 witness: every buffer the pool was built with is owned, and a further
\* acquire() has just returned a fresh one.
C13_Witness ==
    /\ last_op.op = "acquire"
    /\ last_op.origin = "fresh"
    /\ Available(buffer_pool) = 0
    /\ Cardinality(LivePoolBuffers) = buffer_pool.pool_size
    /\ \A t \in PoolThreads : \A b \in held[t] : b.origin # "foreign"

\* C14 as stated: right after acquire() and release() of the buffer it
\* returned, available is what it was before the acquire, whatever the pool
\* held.
C14_RoundTripRestores ==
    (last_op.op = "release" /\ last_op.prior >= 0)
        => Available(buffer_pool) = last_op.prior

\* C14 amended: the round trip restores available when the acquire found the
\* pool non-empty; from an empty pool it leaves the fresh buffer in the pool,
\* one more than before.
C14_RoundTripRestoresNonEmpty ==
    (last_op.op = "release" /\ last_op.prior >= 0)
        => Available(buffer_pool) =
               IF last_op.prior > 0 THEN last_op.prior ELSE 1

\* C14 witness: a round trip on a non-empty pool has just completed.
C14_Witness ==
    /\ last_op.op = "release"
    /\ last_op.prior > 0

\* C15: right after release() of a buffer whose capacity is not the pool's
\* buffer size, available is what it was before the call and the pool holds
\* only buffers of its own size.
C15_ForeignReleaseLeavesPool ==
    /\ (last_op.op = "release" /\ last_op.capacity # buffer_pool.buffer_size)
           => Available(buffer_pool) = last_op.before
    /\ \A i \in 1..Len(buffer_pool.pool) :
           buffer_pool.pool[i].capacity = buffer_pool.buffer_size

\* C15 witness: a buffer of another capacity has just been released while
\* the pool had room for it.
C15_Witness ==
    /\ last_op.op = "release"
    /\ last_op.capacity # buffer_pool.buffer_size
    /\ last_op.before < buffer_pool.pool_size

\* A thread between its acquire() and its release(), as a worker is inside
\* process_injection_request.
MidProcessing(t) == held[t] # {}

\* C16: whenever no thread is between an acquire() and the release() of what
\* it acquired, the pool holds exactly pool_size buffers, whether the threads
\* outnumber the pool's buffers or not.
C16_AllBuffersReturned ==
    (buffer_pool # NoPool /\ \A t \in PoolThreads : ~MidProcessing(t))
        => Available(buffer_pool) = buffer_pool.pool_size

\* C16 witness: the threads had outnumbered the pool's buffers, so that one
\* of them worked with a buffer acquire() allocated; the last of them has
\* just released it into the full pool and none is processing.
C16_Witness ==
    /\ \A t \in PoolThreads : ~MidProcessing(t)
    /\ last_op.op = "release"
    /\ last_op.origin = "fresh"
    /\ last_op.before = buffer_pool.pool_size
    /\ Available(buffer_pool) = buffer_pool.pool_size

\* C17 as stated: the grants of any window shorter than one second number at
\* most max_rate.
C17_AtMostRatePerWindow ==
    limiter # NoLimiter => Len(grants) <= limiter.max_rate

\* C17 amended: the grants of any window shorter than one second number at
\* most twice max_rate (a full bucket and what the window's time earns), and
\* those of one instant at most max_rate.
C17_AtMostTwiceRatePerWindow ==
    limiter # NoLimiter =>
        /\ Len(grants) <= 2 * limiter.max_rate
        /\ \A i \in 1..Len(grants) :
               Cardinality({j \in 1..Len(grants) : grants[j] = grants[i]})
                   <= limiter.max_rate
        /\ limiter.tokens <= limiter.max_rate

\* C17 witness: twice max_rate grants within less than a second.
C17_Witness ==
    /\ limiter # NoLimiter
    /\ Len(grants) = 2 * limiter.max_rate
    /\ grants[Len(grants)] - grants[1] < 1000

\* The least time that earns a token: the smallest elapsed with
\* TokensToAdd(max_rate, elapsed) >= 1.
TokenTime(max_rate) == (1000 + max_rate - 1) \div max_rate

\* C18: with the bucket empty, a try_acquire() made once the time of one
\* token has passed since it was emptied is granted, and after a second or
\* more max_rate calls in a row are granted; so is the call of
\* test_rate_limiter, 200 ms after a bucket of 10 was emptied.
C18_RefillAfterEmpty ==
    /\ (limiter # NoLimiter /\ limiter.tokens = 0 /\ emptied_at >= 0) =>
           /\ clock - emptied_at >= TokenTime(limiter.max_rate)
                  => TryAcquireAt(limiter, clock).granted
           /\ clock - emptied_at >= 1000
                  => GrantedOf(limiter, clock, limiter.max_rate) = limiter.max_rate
    /\ TryAcquireAt([max_rate |-> TestRate, tokens |-> 0, last_refill |-> clock],
                    clock + TestSleep).granted

\* C18 witness: 400 ms after a bucket of 5 was emptied a call has just been
\* granted one of the two tokens that time earned.
C18_Witness ==
    /\ limiter.max_rate = 5
    /\ emptied_at >= 0
    /\ clock = emptied_at + 400
    /\ limiter.last_refill = clock
    /\ limiter.tokens = 1
    /\ Len(grants) >= 2
    /\ grants[Len(grants)] = clock
    /\ grants[Len(grants) - 1] = emptied_at

C20_SuccessRateInUnitInterval ==
    \A k \in Calculators :
        calc[k].pc = "done" =>
            /\ 0 <= calc[k].success_rate.num
            /\ calc[k].success_rate.num <= calc[k].success_rate.den
            /\ calls.count = 0 => calc[k].success_rate.num = 0

\* C21: as long as no reset() has begun, packets_injected of the cached
\* snapshot (what get_metrics() returns) never decreases from one state to
\* the next, also with calculate_metrics() running in several tasks.
C21_CachedPacketsNeverDecrease ==
    [][rst.ran' = 0 =>
           last_metrics'.packets_injected >= last_metrics.packets_injected]_vars

RECURSIVE Pow(_, _)
Pow(b, e) == IF e = 0 THEN 1 ELSE b * Pow(b, e - 1)

RECURSIVE WeightedSum(_, _)
WeightedSum(outcomes, i) ==
    IF i > Len(outcomes) THEN 0
    ELSE (IF outcomes[i]
          THEN Pow(9, Len(outcomes) - i) * Pow(10, i - 1) ELSE 0)
             + WeightedSum(outcomes, i + 1)

\* The rate 0.9 x previous + 0.1 x outcome gives over n outcomes, from 0.0:
\* the sum of 0.1 x 0.9^(n - i) over the successes i, as a fraction over 10^n.
RateOf(outcomes) ==
    [num |-> WeightedSum(outcomes, 1), den |-> Pow(10, Len(outcomes))]

C23_TwoOfThreeAboveSixTenths ==
    \A mac \in Macs :
        target_metrics.activity[mac] = <<TRUE, TRUE, FALSE>> =>
            /\ target_metrics.targets[mac].packets_sent = 3
            /\ 10 * target_metrics.targets[mac].success_rate.num
                   > 6 * target_metrics.targets[mac].success_rate.den

\* C24: every snapshot a receiver has received was published after the
\* receiver subscribed.
C24_OnlyFutureSnapshots ==
    \A s \in Subscribers : \A id \in bus.rx[s].got : id > bus.rx[s].since

\* C24 witness: a receiver that subscribed while earlier snapshots were
\* still in the ring has received one.
C24_Witness ==
    \E s \in Subscribers :
        /\ bus.rx[s].open
        /\ bus.rx[s].got # {}
        /\ \E i \in 1..Len(bus.ring) : bus.ring[i] <= bus.rx[s].since

\* The requests on the work queue.
Queued == {request_queue[k].id : k \in 1..Len(request_queue)}

C26_InFlightWorkCompletes ==
    [][\A w \in Workers :
          /\ observed'[w] # observed[w] =>
                 (wpc[w] = "check" /\ wreq[w] = NoRequest /\ wbuf[w] = "none")
          /\ wpc[w] \in ProcessingPcs =>
                 wpc'[w] \in ProcessingPcs \cup {"check"}
          /\ (wpc[w] \in ProcessingPcs /\ wpc'[w] = "check") =>
                 /\ wpc[w] = "record"
                 /\ wbuf[w] = "none"
                 /\ packets_injected' = packets_injected + 1
                 /\ processed'[wreq[w].id] = processed[wreq[w].id] + 1]_vars

\* C26 witness: the running flag was cleared while a worker was processing
\* a request; the worker has sent the packet and released the buffer and is
\* about to record the outcome, the cleared flag still unobserved.
C26_Witness ==
    /\ ~running
    /\ \E w \in Workers :
           /\ wpc[w] = "record"
           /\ wbuf[w] = "none"
           /\ observed[w]

\* C27: whenever a worker begins a send after an earlier one, at least the
\* minimum inter-send interval, 1,000,000 / max_rate in whole microseconds,
\* has passed since the earlier send finished, whatever max_rate is.
C27_SendsAreSpaced ==
    (pacing # <<>> /\ pacing.pc = "sending" /\ pacing.sends >= 1) =>
        pacing.started - pacing.finished >= MicrosPerSecond \div pacing.max_rate

\* C27 witness: a worker that slept the shortfall begins its second send
\* exactly one interval after the first one finished.
C27_Witness ==
    /\ pacing # <<>>
    /\ pacing.pc = "sending"
    /\ pacing.sends >= 1
    /\ pacing.min_interval > 0
    /\ pacing.wake > pacing.start_time
    /\ pacing.started - pacing.finished = MicrosPerSecond \div pacing.max_rate

\* C28: the peak_pps of the cached snapshot is the largest packets_per_second
\* of all snapshots published since construction, two concurrent
\* calculate_metrics calls included.
C28_PeakIsRunningMax ==
    window # <<>> => window.last_metrics.peak_pps = window.max_seen

\* The timestamps of a sequence that are no older than one second at now.
NoOlderThanOneSecond(timestamps, now) ==
    SelectSeq(timestamps, LAMBDA ts : now - ts <= OneSecond)

\* C29: a calculate_metrics call that ran alone reports as packets_per_second
\* the number of timestamps that were no older than one second when it
\* began, and leaves exactly those in the queue, in their order.
C29_RecentTimestampsCounted ==
    window # <<>> =>
        \A k \in WinCalculators :
            LET c == window.calc[k]
            IN  (c.pc = "publish" /\ c.quiet) =>
                   /\ c.recent_packets =
                          Len(NoOlderThanOneSecond(c.before_ts, c.now))
                   /\ window.packet_timestamps =
                          NoOlderThanOneSecond(c.before_ts, c.now)

\* C29 witness: a call that ran alone found an older and a newer timestamp,
\* one of them exactly one second old, and kept some and discarded some.
C29_Witness ==
    /\ window # <<>>
    /\ \E k \in WinCalculators :
           LET c == window.calc[k]
           IN  /\ c.pc = "publish"
               /\ c.quiet
               /\ c.recent_packets >= 1
               /\ c.recent_packets < Len(c.before_ts)
               /\ \E i \in 1..Len(c.before_ts) : c.now - c.before_ts[i] = OneSecond

RECURSIVE SumOf(_)
SumOf(s) == IF s = <<>> THEN 0 ELSE Head(s).us + SumOf(Tail(s))

\* C30: a calculate_metrics call that ran alone reports as avg_latency_us the
\* mean, in whole microseconds, of all latency samples the queue held, 0 for
\* none, and leaves the last window_size of them in the queue in their order.
C30_MeanOfAllKeepsWindow ==
    window # <<>> =>
        \A k \in WinCalculators :
            LET c == window.calc[k]
                n == Len(c.before_lat)
            IN  (c.pc = "publish" /\ c.quiet) =>
                   /\ c.avg_latency_us =
                          IF n = 0 THEN 0 ELSE SumOf(c.before_lat) \div n
                   /\ window.latency_samples =
                          IF n <= WindowSize
                          THEN c.before_lat
                          ELSE SubSeq(c.before_lat, n - WindowSize + 1, n)

\* C30 witness: a call that ran alone drained more samples than the window
\* holds, of different values, so that the mean of all differs from the
\* mean of those kept.
C30_Witness ==
    /\ window # <<>>
    /\ \E k \in WinCalculators :
           LET c == window.calc[k]
           IN  /\ c.pc = "publish"
               /\ c.quiet
               /\ Len(c.before_lat) > WindowSize
               /\ Len(window.latency_samples) = WindowSize
               /\ c.avg_latency_us # SumOf(window.latency_samples) \div WindowSize
               /\ window.latency_samples[1].us # window.latency_samples[2].us

\* C31: the latency queue holds its samples in the order they arrived, with
\* record_injection running while calculate_metrics drains and refills it.
C31_LatencyQueueInArrivalOrder ==
    window # <<>> =>
        \A i, j \in 1..Len(window.latency_samples) :
            i < j => window.latency_samples[i].n < window.latency_samples[j].n

\* C34: a try_acquire call made before the time since last_refill is worth a
\* whole token leaves last_refill alone and changes the token count by the
\* decrement at most; a call made once it is worth one moves last_refill to
\* the time of the call.
C34_RefillOnlyOnWholeToken ==
    [][(limiter # NoLimiter /\ clock' = clock) =>
          IF (clock - limiter.last_refill) * limiter.max_rate < 1000
          THEN /\ limiter'.last_refill = limiter.last_refill
               /\ limiter'.tokens \in {limiter.tokens, limiter.tokens - 1}
          ELSE /\ limiter'.last_refill = clock
               /\ limiter'.tokens >= limiter.tokens - 1]_vars

\* C34 witness: a call was granted a token at a time that earned none:
\* last_refill stayed behind the clock and the bucket is short of full.
C34_Witness ==
    /\ limiter # NoLimiter
    /\ grants # <<>>
    /\ grants[Len(grants)] = clock
    /\ limiter.last_refill < clock
    /\ (clock - limiter.last_refill) * limiter.max_rate < 1000
    /\ limiter.tokens < limiter.max_rate - 1

\* C35: the time that a refill did not turn into a whole token is carried
\* over: after a refill, the time from last_refill to the call is the part
\* of the elapsed time that earned no token.
C35_RemainderCarriedOver ==
    [][(limiter # NoLimiter /\ clock' = clock
          /\ limiter'.last_refill # limiter.last_refill) =>
          (clock - limiter'.last_refill) * limiter.max_rate =
              ((clock - limiter.last_refill) * limiter.max_rate) % 1000]_vars

\* C39: whatever count and interval a dequeued request carries, the worker
\* acquires one buffer for it, sends, releases the buffer and records one
\* outcome, in this order and each once, before it takes the next request.
C39_OnePassPerRequest ==
    [][\A w \in Workers :
          /\ wpc[w] = "pop" =>
                 /\ wpc'[w] \in {"pop", "check", "acquire"}
                 /\ wpc'[w] = "acquire" => (wreq'[w] # NoRequest /\ wbuf[w] = "none")
          /\ wpc[w] = "acquire" =>
                 /\ wpc'[w] \in {"acquire", "send"}
                 /\ wpc'[w] = "send" => (wbuf[w] = "none" /\ wbuf'[w] # "none")
          /\ wpc[w] = "send" =>
                 /\ wpc'[w] \in {"send", "release"}
                 /\ wbuf'[w] = wbuf[w]
          /\ wpc[w] = "release" =>
                 /\ wpc'[w] \in {"release", "record"}
                 /\ wpc'[w] = "record" => (wbuf[w] # "none" /\ wbuf'[w] = "none")
          /\ wpc[w] = "record" =>
                 /\ wpc'[w] \in {"record", "check"}
                 /\ wpc'[w] = "check" =>
                        /\ processed'[wreq[w].id] = 1
                        /\ wreq'[w] = NoRequest
          /\ wpc[w] \notin {"release", "record"} =>
                 (wreq'[w] = wreq[w] \/ wpc[w] = "pop")
          /\ wpc[w] # "record" =>
                 \/ packets_injected' = packets_injected
                 \/ \E v \in Workers : v # w /\ wpc[v] = "record"]_vars

\* C39 witness: a worker has sent a request whose count is above 1 and
\* whose interval is not zero, has released its one buffer and is about to
\* record the one outcome; the requests before it were recorded once each.
C39_Witness ==
    /\ \E w \in Workers :
           /\ wpc[w] = "record"
           /\ wreq[w].count > 1
           /\ wreq[w].interval > 0
           /\ wbuf[w] = "none"
    /\ packets_injected = MaxRequests - 1
    /\ \A i \in RequestIds : processed[i] <= 1

\* C32: from a reset on, as long as nothing is recorded, the four counters
\* are zero, the three sample queues are empty and the cached snapshot is
\* the default one, a calculate_metrics made in between notwithstanding:
\* what it reports is zero in every field, peak_pps included.
C32_ResetClearsEverything ==
    (solo # <<>> /\ solo.fresh) =>
        /\ solo.packets_injected = 0
        /\ solo.successful_injections = 0
        /\ solo.bytes_transmitted = 0
        /\ solo.active_targets = 0
        /\ solo.packet_timestamps = <<>>
        /\ solo.latency_samples = <<>>
        /\ solo.channel_samples = <<>>
        /\ solo.last_metrics = ZeroMetrics

\* C32 witness: a collector that had published a snapshot other than the
\* default was reset, and calculate_metrics has run since.
C32_Witness ==
    /\ solo # <<>>
    /\ solo.fresh
    /\ solo.calculated
    /\ solo.soiled

\* C33: in both RateLimiters the token count is at most max_rate at all
\* times, whatever max_rate is and however long the calls are apart.
C33_TokensWithinCapacity ==
    twins # <<>> =>
        /\ twins.wide.tokens \in 0..twins.wide.max_rate
        /\ twins.narrow.tokens \in 0..twins.narrow.max_rate

\* C33 witness: both limiters were called after a pause that earned more
\* tokens than the bucket holds, more than the narrow counter can count,
\* and both hold max_rate less the token they granted.
C33_Witness ==
    /\ twins # <<>>
    /\ twins.added >= NarrowModulus
    /\ twins.wide.max_rate > 0
    /\ twins.results = [wide |-> "granted", narrow |-> "granted"]
    /\ twins.wide.tokens = twins.wide.max_rate - 1
    /\ twins.narrow.tokens = twins.narrow.max_rate - 1
    /\ twins.wide.last_refill = twins.now

\* C36: called at the same times, the two RateLimiters return the same
\* results and hold the same number of tokens.
C36_LimitersAgree ==
    twins # <<>> =>
        /\ twins.results.wide = twins.results.narrow
        /\ twins.wide.tokens = twins.narrow.tokens

\* C37: the slot of a ThreadLocalBuffer holds one buffer at most; get()
\* hands out the buffer of the slot when there is one and leaves the shared
\* pool alone, and goes to the shared pool only when the slot is empty;
\* put() fills an empty slot and leaves the shared pool alone, and hands
\* the buffer to the shared pool, the slot unchanged, when it is occupied.
C37_SlotFirst ==
    [][(cache # <<>> /\ cache'.calls = cache.calls + 1) =>
          /\ Len(cache'.local_buffer) <= 1
          /\ cache'.last.op = "get" =>
                 IF cache.local_buffer # <<>>
                 THEN /\ cache'.last.buffer = cache.local_buffer[1]
                      /\ cache'.local_buffer = <<>>
                      /\ cache'.pool = cache.pool
                 ELSE /\ cache'.local_buffer = <<>>
                      /\ cache'.last.pooled
                      /\ Len(cache'.pool.pool) = Max(0, Len(cache.pool.pool) - 1)
          /\ cache'.last.op = "put" =>
                 IF cache.local_buffer = <<>>
                 THEN /\ cache'.local_buffer = <<cache'.last.buffer>>
                      /\ cache'.pool = cache.pool
                 ELSE /\ cache'.local_buffer = cache.local_buffer
                      /\ cache'.last.pooled
                      /\ cache'.pool.pool \in
                             {cache.pool.pool,
                              Append(cache.pool.pool,
                                     [cache'.last.buffer EXCEPT !.len = 0])}]_vars

\* C37 witness: with the slot occupied, a put() has passed its buffer on to
\* the shared pool, which is full again; the slot still holds its buffer.
C37_Witness ==
    /\ cache # <<>>
    /\ cache.last.op = "put"
    /\ cache.last.pooled
    /\ cache.local_buffer # <<>>
    /\ Len(cache.pool.pool) = cache.pool.pool_size
    /\ cache.calls >= 4

\* C38: the buffer that acquire() or ThreadLocalBuffer::get() has handed out
\* is empty and has the pool's buffer size as its capacity.
C38_HandedOutEmptyAndSized ==
    (cache # <<>> /\ cache.last.op \in {"get", "acquire"}) =>
        /\ cache.last.buffer.len = 0
        /\ cache.last.buffer.capacity = cache.pool.buffer_size

\* C40: total_bytes() is the sum of the data lengths of the buffered
\* packets (and packet_count() their number), evictions included.
C40_TotalsMatchBuffer ==
    export # <<>> => export.total_bytes = Total(export.packets)

====
